---- MODULE Spec2Model ----
(***************************************************************************)
(* A model of the flow package of longpi1/gopkg: the Dag/Node graph model  *)
(* (libary/flow/dag.go, libary/flow/node.go) and the Flow scheduler that  *)
(* runs a graph (flow.go, held as src/unnamed/part_004).                   *)
(*                                                                         *)
(* Go pointers are modelled as addresses into two heaps: nodes (every      *)
(* *Node ever allocated) and dags (every *Dag ever allocated).  Address 0  *)
(* is the nil pointer.  A slice of *Node is a sequence of addresses, a Go  *)
(* map is a function whose domain is the set of keys present.              *)
(*                                                                         *)
(* Three specifications share the variables:                               *)
(*   SpecBuild  construction and validation (AddVertex, AddEdge,           *)
(*              Validate) of one graph;                                    *)
(*   SpecGraph  the same with a second graph that is attached to a node    *)
(*              as sub-graph (AddSubDag, AddForEachDag,                    *)
(*              AddConditionalDag), and with a vertex id that collides     *)
(*              with the id of the exit node Validate adds;                *)
(*   SpecRun    one run of Flow.Run on a graph built beforehand, with the  *)
(*              dispatcher and every node goroutine interleaved step by    *)
(*              step.                                                      *)
(***************************************************************************)
EXTENDS Integers, Sequences, FiniteSets, Bags, TLC

\* ------------------------------------------------------------------ bounds
\* Number of calls explored by SpecBuild.
MaxOps == 4

\* Number of calls explored by SpecGraph.
MaxGraphOps == 3

\* Number of calls explored by SpecForward.
MaxForwardOps == 4

\* Number of goroutines calling Input and Close in SpecChannel.
NumProducers == 2

\* Number of Input calls explored by SpecChannel.
MaxInputs == 3

\* Number of goroutines calling Set and Get in SpecData.
NumCallers == 2

\* Number of calls explored by SpecNest.
MaxNestOps == 3

\* Vertex ids the construction calls draw from.
Ids == {"A", "B", "C"}

\* The nil pointer (zero value of *Node and *Dag fields).
Nil == 0

VARIABLES
    nodes,          \* heap of Node objects: Seq of node records
    dags,           \* heap of Dag objects: Seq of dag records
    lastOp,         \* the construction call made last, with its arguments
    lastErr,        \* the error value that call returned
    opCount,        \* number of construction calls made so far
    flow,           \* the Flow struct: dag, readyChan (buffer and capacity)
    runPc,          \* position of the goroutine executing Flow.Run
    nodeTask,       \* the loop variable of Flow.Run's range loop
    gs,             \* the goroutines started by Flow.Run, in spawn order
    cancelled,      \* whether the ctx handed to Run has been cancelled
    sharedLoopVar,  \* Go < 1.22 loop-variable semantics (one nodeTask for all closures)
    taskFails,      \* ids of the nodes whose task returns a non-nil error
    crashed,        \* an unrecovered panic has ended the process
    lastSet,        \* per key, the value of the latest Set call that has completed
    channel         \* the channel struct of channel.go, with what was accepted and delivered

buildVars == <<nodes, dags, lastOp, lastErr, opCount>>
runVars == <<flow, runPc, nodeTask, gs, cancelled, sharedLoopVar, taskFails, crashed, lastSet, channel>>
vars == <<nodes, dags, lastOp, lastErr, opCount, flow, runPc, nodeTask, gs,
          cancelled, sharedLoopVar, taskFails, crashed, lastSet, channel>>

\* ------------------------------------------------------------- Go maps
EmptyMap == [k \in {} |-> Nil]

MapPut(m, k, v) == [x \in (DOMAIN m) \cup {k} |-> IF x = k THEN v ELSE m[x]]

\* m[k] of a Go map of pointers: the zero value nil when the key is absent.
MapGet(m, k) == IF k \in DOMAIN m THEN m[k] ELSE Nil

\* --------------------------------------------------------- Dag and Node
\* NewDag: an empty graph with Id "0" and executionFlow true.
NewDag ==
    [Id |-> "0", nodes |-> EmptyMap, parentNode |-> Nil,
     initialNode |-> Nil, endNode |-> Nil,
     hasBranch |-> FALSE, hasEdge |-> FALSE, validated |-> FALSE,
     executionFlow |-> TRUE, dataForwarderCount |-> 0, nodeIndex |-> 0]

\* The Node literal of AddVertex; every other field has its zero value.
NewNode(id, idx, d) ==
    [Id |-> id, index |-> idx, uniqueId |-> "",
     subDag |-> Nil, conditionalDags |-> EmptyMap,
     dynamic |-> FALSE, aggregator |-> "nil", foreach |-> "nil", condition |-> "nil",
     forwarder |-> EmptyMap,
     task |-> "nil", parentDag |-> d,
     indegree |-> 0, dynamicIndegree |-> 0, outdegree |-> 0,
     children |-> <<>>, dependsOn |-> <<>>, next |-> <<>>, prev |-> <<>>]

\* The heap after construction of one empty graph.
EmptyStore == [nodes |-> <<>>, dags |-> <<NewDag>>]

\* Dag.AddVertex: allocates a node with the next index and stores it under
\* id, replacing whatever node the map held there.  The new node's address
\* is Len(result.nodes).
AddVertex(s, d, id) ==
    LET addr == Len(s.nodes) + 1
        node == NewNode(id, s.dags[d].nodeIndex + 1, d)
    IN  [nodes |-> Append(s.nodes, node),
         dags  |-> [s.dags EXCEPT ![d].nodeIndex = @ + 1,
                                  ![d].nodes = MapPut(@, id, addr)]]

\* Dag.Append: the range loop over appendDag.nodes, visiting the ids in
\* order.  The duplicate test reads appendDag.nodes[nodeId], the map that is
\* being ranged over.
RECURSIVE DagAppend(_, _, _, _)
DagAppend(s, d, appendDag, order) ==
    IF order = <<>> THEN [st |-> s, err |-> "nil"]
    ELSE LET nodeId == Head(order)
             node == s.dags[appendDag].nodes[nodeId]
             duplicate == nodeId \in DOMAIN s.dags[appendDag].nodes
         IN  IF duplicate THEN [st |-> s, err |-> "ErrDuplicateVertex"]
             ELSE DagAppend([s EXCEPT !.dags[d].nodes = MapPut(@, nodeId, node)],
                            d, appendDag, Tail(order))

\* Node.AddForwarder: fwd is "nil" or the name of a forwarder function.
AddForwarder(s, n, child, fwd) ==
    LET d  == s.nodes[n].parentDag
        s1 == [s EXCEPT !.nodes[n].forwarder = MapPut(@, child, fwd)]
    IN  IF fwd # "nil"
        THEN [s1 EXCEPT !.dags[d].dataForwarderCount = @ + 1,
                        !.dags[d].executionFlow = FALSE]
        ELSE LET c == s1.dags[d].dataForwarderCount - 1
             IN  [s1 EXCEPT !.dags[d].dataForwarderCount = c,
                            !.dags[d].executionFlow = IF c = 0 THEN TRUE ELSE @]

\* Node.inSlice: membership by Id, not by pointer.
inSlice(s, n, list) ==
    \E i \in 1..Len(list) : s.nodes[list[i]].Id = s.nodes[n].Id

\* for _, b := range bs { b.next = append(b.next, t); b.next = append(b.next, t.next...) }
\* bs is the slice as it was when the loop started; t.next is read afresh
\* in every iteration.  The iterations are taken in order, the first half of
\* bs and then the second; the test on a.nodes makes TLC compute the heap
\* after the first half before it goes on (it is never empty here).
RECURSIVE ExtendNext(_, _, _)
ExtendNext(s, bs, t) ==
    IF bs = <<>> THEN s
    ELSE IF Len(bs) = 1
    THEN LET b  == Head(bs)
             s1 == [s EXCEPT !.nodes[b].next = Append(@, t)]
         IN  [s1 EXCEPT !.nodes[b].next = @ \o s1.nodes[t].next]
    ELSE LET h == Len(bs) \div 2
             a == ExtendNext(s, SubSeq(bs, 1, h), t)
         IN  IF a.nodes = <<>> THEN a
             ELSE ExtendNext(a, SubSeq(bs, h + 1, Len(bs)), t)

\* for _, b := range bs { b.prev = append(b.prev, f); b.prev = append(b.prev, f.prev...) }
RECURSIVE ExtendPrev(_, _, _)
ExtendPrev(s, bs, f) ==
    IF bs = <<>> THEN s
    ELSE IF Len(bs) = 1
    THEN LET b  == Head(bs)
             s1 == [s EXCEPT !.nodes[b].prev = Append(@, f)]
         IN  [s1 EXCEPT !.nodes[b].prev = @ \o s1.nodes[f].prev]
    ELSE LET h == Len(bs) \div 2
             a == ExtendPrev(s, SubSeq(bs, 1, h), f)
         IN  IF a.nodes = <<>> THEN a
             ELSE ExtendPrev(a, SubSeq(bs, h + 1, Len(bs)), f)

\* UpdateReferences without the loops over fromNode.prev and toNode.next.
UpdateReferences_EndpointsOnly(s, f, t) ==
    ExtendPrev(ExtendNext(s, <<f>>, t), <<t>>, f)

\* The two "Update references recursively" blocks of AddEdge.
UpdateReferences(s, f, t) ==
    LET a == ExtendNext(s, <<f>>, t)
        b == ExtendNext(a, a.nodes[f].prev, t)
        c == ExtendPrev(b, <<t>>, f)
    IN  ExtendPrev(c, c.nodes[t].next, f)

\* LinkNodes without fromNode.outdegree++.
LinkNodes_NoOutdegree(s, d, f, t, to) ==
    LET s1 == [s EXCEPT !.nodes[f].children = Append(@, t)]
        s2 == [s1 EXCEPT !.nodes[t].dependsOn = Append(@, f)]
        s3 == [s2 EXCEPT !.nodes[t].indegree = @ + 1]
        s6 == AddForwarder(s3, f, to, "DefaultForwarder")
        s7 == IF s6.nodes[t].indegree > 1 \/ s6.nodes[f].outdegree > 1
              THEN [s6 EXCEPT !.dags[d].hasBranch = TRUE] ELSE s6
    IN  [s7 EXCEPT !.dags[d].hasEdge = TRUE]

\* The rest of a successful AddEdge: adjacency, degrees, the default
\* forwarder and the flags.
LinkNodes(s, d, f, t, to) ==
    LET s1 == [s EXCEPT !.nodes[f].children = Append(@, t)]
        s2 == [s1 EXCEPT !.nodes[t].dependsOn = Append(@, f)]
        s3 == [s2 EXCEPT !.nodes[t].indegree = @ + 1]
        s4 == IF s3.nodes[f].dynamic
              THEN [s3 EXCEPT !.nodes[t].dynamicIndegree = @ + 1] ELSE s3
        s5 == [s4 EXCEPT !.nodes[f].outdegree = @ + 1]
        s6 == AddForwarder(s5, f, to, "DefaultForwarder")
        s7 == IF s6.nodes[t].indegree > 1 \/ s6.nodes[f].outdegree > 1
              THEN [s6 EXCEPT !.dags[d].hasBranch = TRUE] ELSE s6
    IN  [s7 EXCEPT !.dags[d].hasEdge = TRUE]

\* The cyclic-dependency test of AddEdge.
IsCyclic(s, f, t) ==
    inSlice(s, f, s.nodes[t].next) \/ inSlice(s, t, s.nodes[f].prev)

\* The duplicate-edge test of AddEdge.
IsDuplicateEdge(s, f, t) ==
    inSlice(s, t, s.nodes[f].children) \/ inSlice(s, f, s.nodes[t].dependsOn)

\* AddEdge with the endpoints resolved (created when absent): s is the heap
\* after the lazy AddVertex calls.
AddEdgeResolved_LinkBeforeCheck(s, d, f, t, to) ==
    IF IsDuplicateEdge(s, f, t) THEN [st |-> s, err |-> "ErrDuplicateEdge"]
    ELSE IF IsCyclic(s, f, t)
         THEN [st |-> UpdateReferences(s, f, t), err |-> "ErrCyclic"]
         ELSE [st |-> LinkNodes(UpdateReferences(s, f, t), d, f, t, to), err |-> "nil"]

\* AddEdge without the duplicate-edge test.
AddEdgeResolved_NoDuplicateCheck(s, d, f, t, to) ==
    IF IsCyclic(s, f, t) THEN [st |-> s, err |-> "ErrCyclic"]
    ELSE [st |-> LinkNodes(UpdateReferences(s, f, t), d, f, t, to), err |-> "nil"]

AddEdgeResolved(s, d, f, t, to) ==
    IF IsDuplicateEdge(s, f, t) THEN [st |-> s, err |-> "ErrDuplicateEdge"]
    ELSE IF IsCyclic(s, f, t) THEN [st |-> s, err |-> "ErrCyclic"]
    ELSE [st |-> LinkNodes(UpdateReferences(s, f, t), d, f, t, to), err |-> "nil"]

\* Dag.AddEdge(from, to): the resulting heap and the error returned.
AddEdge(s, d, from, to) ==
    LET s1 == IF MapGet(s.dags[d].nodes, from) = Nil THEN AddVertex(s, d, from) ELSE s
        f  == s1.dags[d].nodes[from]
        s2 == IF MapGet(s1.dags[d].nodes, to) = Nil THEN AddVertex(s1, d, to) ELSE s1
        t  == s2.dags[d].nodes[to]
    IN  AddEdgeResolved(s2, d, f, t, to)

\* ----------------------------------------------------------- FlowDataSet
\* NewDataSet: an empty map and an unlocked sync.RWMutex (w: the write lock
\* is held; r: the number of read locks held).
NewDataSet == [data |-> EmptyMap, lock |-> [w |-> FALSE, r |-> 0]]

\* A lock that never makes a caller wait.
CanLock_NoExclusion(l) == TRUE

\* lock.Lock() returns: no writer and no reader holds the lock.
CanLock(l) == ~l.w /\ l.r = 0

\* lock.RLock() returns: no writer holds the lock.
CanRLock(l) == ~l.w

\* dataSet.data[key] = data
DataSetWrite(ds, key, data) == [ds EXCEPT !.data = MapPut(@, key, data)]

\* data, ok = dataSet.data[key]: the zero value nil and false for an absent
\* key.
DataSetRead(ds, key) ==
    IF key \in DOMAIN ds.data THEN [data |-> ds.data[key], ok |-> TRUE]
    ELSE [data |-> "nil", ok |-> FALSE]

\* ------------------------------------------------- the edge relation
\* The nodes the graph d holds: the range of dag.nodes.
StoredNodes(s, d) == {s.dags[d].nodes[id] : id \in DOMAIN s.dags[d].nodes}

ChildrenOf(s, n) == {s.nodes[n].children[i] : i \in DOMAIN s.nodes[n].children}

ParentsOf(s, n) == {s.nodes[n].dependsOn[i] : i \in DOMAIN s.nodes[n].dependsOn}

\* Nodes reachable from the set front over one or more child edges.
RECURSIVE ReachableFrom(_, _, _)
ReachableFrom(s, front, seen) ==
    LET step == UNION {ChildrenOf(s, n) : n \in front}
    IN  IF step \subseteq seen THEN seen
        ELSE ReachableFrom(s, step \ seen, seen \cup step)

Descendants(s, n) == ReachableFrom(s, {n}, {})

\* The graph d holds the edge from -> to: both ids are stored and the node
\* stored under to is a child of the node stored under from.
EdgeExists(s, d, from, to) ==
    /\ from \in DOMAIN s.dags[d].nodes
    /\ to \in DOMAIN s.dags[d].nodes
    /\ s.dags[d].nodes[to] \in ChildrenOf(s, s.dags[d].nodes[from])

\* No node of the graph reaches itself over child edges.
Acyclic(s, d) == \A n \in StoredNodes(s, d) : n \notin Descendants(s, n)

\* ------------------------------------------------- sub-graph attachment
\* Node.AddAggregator.
AddAggregator(s, n) == [s EXCEPT !.nodes[n].aggregator = "set"]

\* Node.AddForEach: the node becomes dynamic and gets the forwarder
\* "dynamic".
AddForEach(s, n) ==
    AddForwarder([s EXCEPT !.nodes[n].foreach = "set", !.nodes[n].dynamic = TRUE],
                 n, "dynamic", "DefaultForwarder")

\* Node.AddCondition.
AddCondition(s, n) ==
    AddForwarder([s EXCEPT !.nodes[n].condition = "set", !.nodes[n].dynamic = TRUE],
                 n, "dynamic", "DefaultForwarder")

\* WalkParents looking at the node's own graph only.
WalkParents_OwnGraphOnly(s, parentDag, sd, seen) ==
    IF parentDag = sd THEN "recursive" ELSE "clear"

\* The loop of AddSubDag up the chain of owning nodes, at the graph
\* parentDag: "recursive" when sd is met, "clear" when the chain ends,
\* "hang" when the chain leads back to a graph in seen (the loop then never
\* ends).
RECURSIVE WalkParents(_, _, _, _)
WalkParents(s, parentDag, sd, seen) ==
    IF parentDag = Nil THEN "clear"
    ELSE IF parentDag = sd THEN "recursive"
    ELSE IF parentDag \in seen THEN "hang"
    ELSE LET parentNode == s.dags[parentDag].parentNode
         IN  IF parentNode # Nil
             THEN WalkParents(s, s.nodes[parentNode].parentDag, sd, seen \cup {parentDag})
             ELSE "clear"

\* Node.AddSubDag.
AddSubDag(s, n, sd) ==
    LET w == WalkParents(s, s.nodes[n].parentDag, sd, {})
    IN  IF w = "recursive" THEN [st |-> s, err |-> "ErrRecursiveDep"]
        ELSE IF w = "hang" THEN [st |-> s, err |-> "hang"]
        ELSE [st  |-> [s EXCEPT !.nodes[n].subDag = sd, !.dags[sd].parentNode = n],
              err |-> "nil"]

\* AddForEachDag without the writes of hasBranch and hasEdge.
AddForEachDag_NoFlags(s, n, sd) ==
    [st  |-> [s EXCEPT !.nodes[n].subDag = sd, !.dags[sd].parentNode = n],
     err |-> "nil"]

\* Node.AddForEachDag.
AddForEachDag(s, n, sd) ==
    LET d == s.nodes[n].parentDag
    IN  [st  |-> [s EXCEPT !.nodes[n].subDag = sd, !.dags[sd].parentNode = n,
                           !.dags[d].hasBranch = TRUE, !.dags[d].hasEdge = TRUE],
         err |-> "nil"]

\* Node.AddConditionalDag.
AddConditionalDag(s, n, condition, sd) ==
    LET d  == s.nodes[n].parentDag
        s1 == [s EXCEPT !.nodes[n].conditionalDags = MapPut(@, condition, sd)]
        s2 == [s1 EXCEPT !.dags[sd].parentNode = n]
    IN  [s2 EXCEPT !.dags[d].hasBranch = TRUE, !.dags[d].hasEdge = TRUE]

\* ------------------------------------------------------------- Validate
\* m[k] of a map of forwarders: the nil function when the key is absent.
ForwarderGet(m, k) == IF k \in DOMAIN m THEN m[k] ELSE "nil"

\* Node.generateUniqueId: "<dagId>_<index>_<id>".
generateUniqueId(s, n, dagId) ==
    dagId \o "_" \o ToString(s.nodes[n].index) \o "_" \o s.nodes[n].Id

\* fmt.Sprintf("%s_%d", dag.Id, b.index) under a sub-graph, "%d" under the
\* root graph (whose Id is "0"): the id Validate gives to b.subDag.
SubDagId(s, d, b) ==
    IF s.dags[d].Id # "0"
    THEN s.dags[d].Id \o "_" \o ToString(s.nodes[b].index)
    ELSE ToString(s.nodes[b].index)

\* The id Validate gives to the conditional sub-graph of b under condition.
ConditionalDagId(s, d, b, condition) == SubDagId(s, d, b) \o "_" \o condition

\* hasBranch, hasEdge and executionFlow of the graph d taken over from its
\* validated sub-graph sd.
InheritFlags(s, d, sd) ==
    [s EXCEPT !.dags[d].hasBranch = @ \/ s.dags[sd].hasBranch,
              !.dags[d].hasEdge = @ \/ s.dags[sd].hasEdge,
              !.dags[d].executionFlow = @ /\ s.dags[sd].executionFlow]

\* for _, b := range endNodes { AddEdge(b.Id, endNodeId); b.AddForwarder(endNodeId, nil) }
RECURSIVE ConnectEnds(_, _, _, _)
ConnectEnds(s, d, ends, endNodeId) ==
    IF ends = <<>> THEN [st |-> s, err |-> "nil"]
    ELSE LET b == Head(ends)
             r == AddEdge(s, d, s.nodes[b].Id, endNodeId)
         IN  IF r.err # "nil" THEN r
             ELSE ConnectEnds(AddForwarder(r.st, b, endNodeId, "nil"), d, Tail(ends), endNodeId)

\* Dag.Validate and its loop over dag.nodes.  ord gives, for every graph of
\* the heap, the order in which the range loop visits its ids (Go iterates
\* a map in an unspecified order); stack is the set of graphs whose
\* Validate call is on the call stack.  The error returned is "nil", an
\* error value, "panic" (index out of range of endNodes[0]) or
\* "stack overflow": a graph that is entered again while its own call is
\* on the stack is unvalidated still and is entered again without end.
RECURSIVE ValidateDag(_, _, _, _)
RECURSIVE ValidateScan(_, _, _, _, _)
RECURSIVE ValidateConditionalDags(_, _, _, _, _, _)

\* for condition, cdag := range b.conditionalDags { ... }
ValidateConditionalDags(s, d, b, conds, ord, stack) ==
    IF conds = <<>> THEN [st |-> s, err |-> "nil"]
    ELSE LET condition == Head(conds)
             cdag == s.nodes[b].conditionalDags[condition]
             s1 == [s EXCEPT !.dags[cdag].Id = ConditionalDagId(s, d, b, condition)]
             r  == ValidateDag(s1, cdag, ord, stack)
         IN  IF r.err # "nil" THEN r
             ELSE ValidateConditionalDags(InheritFlags(r.st, d, cdag), d, b,
                                          Tail(conds), ord, stack)

\* The body of the loop for the ids of order; acc carries the heap, the
\* count of indegree-0 nodes, the list of outdegree-0 nodes and the error
\* on which the loop returned.
ValidateScan(acc, d, order, ord, stack) ==
    IF order = <<>> \/ acc.err # "nil" THEN acc
    ELSE LET b  == acc.st.dags[d].nodes[Head(order)]
             s1 == [acc.st EXCEPT !.nodes[b].uniqueId =
                                      generateUniqueId(acc.st, b, acc.st.dags[d].Id)]
             isInitial == s1.nodes[b].indegree = 0
             s2 == IF isInitial THEN [s1 EXCEPT !.dags[d].initialNode = b] ELSE s1
             isEnd == s2.nodes[b].outdegree = 0
             count == IF isInitial THEN acc.count + 1 ELSE acc.count
             ends  == IF isEnd THEN Append(acc.ends, b) ELSE acc.ends
             sd == s2.nodes[b].subDag
             r3 == IF sd = Nil THEN [st |-> s2, err |-> "nil"]
                   ELSE LET sv == ValidateDag([s2 EXCEPT !.dags[sd].Id = SubDagId(s2, d, b)],
                                              sd, ord, stack)
                        IN  IF sv.err # "nil" THEN sv
                            ELSE [st |-> InheritFlags(sv.st, d, sd), err |-> "nil"]
         IN  IF r3.err # "nil"
             THEN [st |-> r3.st, count |-> count, ends |-> ends, err |-> r3.err]
             ELSE LET s4 == IF r3.st.nodes[b].dynamic
                               /\ ForwarderGet(r3.st.nodes[b].forwarder, "dynamic") # "nil"
                            THEN [r3.st EXCEPT !.dags[d].executionFlow = FALSE] ELSE r3.st
                      r5 == ValidateConditionalDags(s4, d, b,
                                ord.conds[b], ord, stack)
                  IN  ValidateScan([st |-> r5.st, count |-> count, ends |-> ends,
                                    err |-> r5.err], d, Tail(order), ord, stack)

\* ValidateFinish without the test of initialNodeCount.
ValidateFinish_NoStartCheck(acc, d) ==
    IF Len(acc.ends) > 1
    THEN LET endNodeId == "end_" \o acc.st.dags[d].Id
             s1 == AddVertex(acc.st, d, endNodeId)
             endNode == Len(s1.nodes)
             r == ConnectEnds(s1, d, acc.ends, endNodeId)
         IN  IF r.err # "nil" THEN r
             ELSE [st  |-> [r.st EXCEPT !.dags[d].endNode = endNode,
                                        !.dags[d].validated = TRUE],
                   err |-> "nil"]
    ELSE IF Len(acc.ends) = 0 THEN [st |-> acc.st, err |-> "panic"]
    ELSE [st  |-> [acc.st EXCEPT !.dags[d].endNode = acc.ends[1],
                                 !.dags[d].validated = TRUE],
          err |-> "nil"]

\* Validate after its loop: acc is what the loop left.
ValidateFinish(acc, d) ==
    IF acc.count > 1 THEN [st |-> acc.st, err |-> "ErrMultipleStart"]
    ELSE IF Len(acc.ends) > 1
         THEN LET endNodeId == "end_" \o acc.st.dags[d].Id
                  s1 == AddVertex(acc.st, d, endNodeId)
                  endNode == Len(s1.nodes)
                  r == ConnectEnds(s1, d, acc.ends, endNodeId)
              IN  IF r.err # "nil" THEN r
                  ELSE [st  |-> [r.st EXCEPT !.dags[d].endNode = endNode,
                                             !.dags[d].validated = TRUE],
                        err |-> "nil"]
         ELSE IF Len(acc.ends) = 0 THEN [st |-> acc.st, err |-> "panic"]
         ELSE [st  |-> [acc.st EXCEPT !.dags[d].endNode = acc.ends[1],
                                      !.dags[d].validated = TRUE],
               err |-> "nil"]

\* Validate without the test of dag.validated.
ValidateDag_Revalidates(s, d, ord, stack) ==
    IF d \in stack THEN [st |-> s, err |-> "stack overflow"]
    ELSE IF DOMAIN s.dags[d].nodes = {} THEN [st |-> s, err |-> "ErrNoVertex"]
    ELSE LET acc == ValidateScan([st |-> s, count |-> 0, ends |-> <<>>, err |-> "nil"],
                                 d, ord.ids[d], ord, stack \cup {d})
         IN  IF acc.err # "nil" THEN [st |-> acc.st, err |-> acc.err]
             ELSE ValidateFinish(acc, d)

\* Validate without the test of len(dag.nodes).
ValidateDag_NoEmptyCheck(s, d, ord, stack) ==
    IF d \in stack THEN [st |-> s, err |-> "stack overflow"]
    ELSE IF s.dags[d].validated THEN [st |-> s, err |-> "nil"]
    ELSE LET acc == ValidateScan([st |-> s, count |-> 0, ends |-> <<>>, err |-> "nil"],
                                 d, ord.ids[d], ord, stack \cup {d})
         IN  IF acc.err # "nil" THEN [st |-> acc.st, err |-> acc.err]
             ELSE ValidateFinish(acc, d)

ValidateDag(s, d, ord, stack) ==
    IF d \in stack THEN [st |-> s, err |-> "stack overflow"]
    ELSE IF s.dags[d].validated THEN [st |-> s, err |-> "nil"]
    ELSE IF DOMAIN s.dags[d].nodes = {} THEN [st |-> s, err |-> "ErrNoVertex"]
    ELSE LET acc == ValidateScan([st |-> s, count |-> 0, ends |-> <<>>, err |-> "nil"],
                                 d, ord.ids[d], ord, stack \cup {d})
         IN  IF acc.err # "nil" THEN [st |-> acc.st, err |-> acc.err]
             ELSE ValidateFinish(acc, d)

\* Dag.GetNodes: the unique ids of the nodes of the graph d and, for every
\* node that is not dynamic, of its subDag.  The result is the bag of the
\* strings of the list returned (the order of the list is that of the range
\* loop).  stack is the set of graphs whose GetNodes call is on the call
\* stack: a graph entered again is entered without end, which the bag
\* records as the element "stack overflow".
RECURSIVE GetNodes(_, _, _, _)
RECURSIVE GetNodesRange(_, _, _, _, _)
GetNodesRange(s, d, ids, dynamicOption, stack) ==
    IF ids = {} THEN EmptyBag
    ELSE LET id == CHOOSE i \in ids : TRUE
             b  == s.dags[d].nodes[id]
             nodeId == IF dynamicOption = "" THEN s.nodes[b].uniqueId
                       ELSE s.nodes[b].uniqueId \o "_" \o dynamicOption
             subDagNodes == IF s.nodes[b].dynamic \/ s.nodes[b].subDag = Nil THEN EmptyBag
                            ELSE GetNodes(s, s.nodes[b].subDag, dynamicOption, stack)
         IN  SetToBag({nodeId}) (+) subDagNodes
                 (+) GetNodesRange(s, d, ids \ {id}, dynamicOption, stack)

GetNodes(s, d, dynamicOption, stack) ==
    IF d \in stack THEN SetToBag({"stack overflow"})
    ELSE GetNodesRange(s, d, DOMAIN s.dags[d].nodes, dynamicOption, stack \cup {d})

\* The orders in which a range loop may visit the keys S of a map.
Orders(S) ==
    {o \in [1..Cardinality(S) -> S] : \A i, j \in 1..Cardinality(S) : o[i] = o[j] => i = j}

\* The orders in which one call of Validate may visit the maps of the heap
\* s: ids[d] for dag.nodes of every graph d, conds[b] for b.conditionalDags
\* of every node b.  A validated graph is given one order only: Validate
\* returns from it before the range loop.
RECURSIVE IdOrders(_, _)
IdOrders(s, k) ==
    IF k = 0 THEN {<<>>}
    ELSE LET all == Orders(DOMAIN s.dags[k].nodes)
             os  == IF s.dags[k].validated THEN {CHOOSE o \in all : TRUE} ELSE all
         IN  {Append(p, o) : p \in IdOrders(s, k - 1), o \in os}

RECURSIVE ConditionOrders(_, _)
ConditionOrders(s, k) ==
    IF k = 0 THEN {<<>>}
    ELSE {Append(p, o) : p \in ConditionOrders(s, k - 1),
                         o \in Orders(DOMAIN s.nodes[k].conditionalDags)}

ValidateOrders(s) ==
    {[ids |-> i, conds |-> c] : i \in IdOrders(s, Len(s.dags)),
                                c \in ConditionOrders(s, Len(s.nodes))}

\* Dag.Validate called by the user: the resulting heap and the error.
Validate(s, d, ord) == ValidateDag(s, d, ord, {})

\* A sequence of AddEdge calls on the graph d.
RECURSIVE AddEdges(_, _, _)
AddEdges(s, d, edges) ==
    IF edges = <<>> THEN s
    ELSE AddEdges(AddEdge(s, d, Head(edges)[1], Head(edges)[2]).st, d, Tail(edges))

\* ------------------------------------------------------ construction phase
st == [nodes |-> nodes, dags |-> dags]

NoFlow == [dag |-> Nil, readyChan |-> <<>>, cap |-> 0, data |-> Nil]

InitBuild ==
    /\ nodes = EmptyStore.nodes
    /\ dags = EmptyStore.dags
    /\ lastOp = <<"NewDag">>
    /\ lastErr = "nil"
    /\ opCount = 0
    /\ flow = NoFlow
    /\ runPc = "idle"
    /\ nodeTask = Nil
    /\ gs = <<>>
    /\ cancelled = FALSE
    /\ sharedLoopVar = FALSE
    /\ taskFails = {}
    /\ crashed = FALSE
    /\ lastSet = EmptyMap
    /\ channel = Nil

DoAddVertex(d, id) ==
    /\ opCount < MaxOps
    /\ ~crashed
    /\ LET r == AddVertex(st, d, id)
       IN  /\ nodes' = r.nodes
           /\ dags' = r.dags
    /\ lastOp' = <<"AddVertex", id, d>>
    /\ lastErr' = "nil"
    /\ opCount' = opCount + 1
    /\ UNCHANGED runVars

DoAddEdge(d, from, to) ==
    /\ opCount < MaxOps
    /\ ~crashed
    /\ LET r == AddEdge(st, d, from, to)
       IN  /\ nodes' = r.st.nodes
           /\ dags' = r.st.dags
           /\ lastErr' = r.err
    /\ lastOp' = <<"AddEdge", from, to, d>>
    /\ opCount' = opCount + 1
    /\ UNCHANGED runVars

\* A call that ended the process: the index panic or the stack overflow of
\* Validate, the endless loop of AddSubDag.
Aborts == {"panic", "stack overflow", "hang"}

\* The bookkeeping of one call that returned r = [st, err].
Returned(r, op) ==
    /\ nodes' = r.st.nodes
    /\ dags' = r.st.dags
    /\ lastErr' = r.err
    /\ lastOp' = op
    /\ opCount' = opCount + 1
    /\ crashed' = (r.err \in Aborts)
    /\ UNCHANGED <<flow, runPc, nodeTask, gs, cancelled, sharedLoopVar, taskFails, lastSet, channel>>

DoValidate(d) ==
    /\ opCount < MaxOps
    /\ ~crashed
    /\ \E ord \in ValidateOrders(st) : Returned(Validate(st, d, ord), <<"Validate", d>>)

NextBuild ==
    \/ \E id \in Ids : DoAddVertex(1, id)
    \/ \E from \in Ids, to \in Ids : DoAddEdge(1, from, to)
    \/ DoValidate(1)

SpecBuild == InitBuild /\ [][NextBuild]_vars

\* ------------------------------------- construction and validation phase
\* Two graphs: the root graph 1, built call by call, and a graph 2 built
\* beforehand that can be attached to a node of graph 1.
Graphs == {1, 2}

\* Vertex ids of graph 1: two ids and the id Validate gives to the exit
\* node it adds to a root graph.
RootIds == {"A", "B", "end_0"}

\* Graph 2 as built before: the AddEdge calls made on it.  It is empty, a
\* chain of two nodes or a fork with the exits Y and Z.
SubGraphEdges ==
    { <<>>,
      << <<"X", "Y">> >>,
      << <<"X", "Y">>, <<"X", "Z">> >> }

\* The node of graph 1 the caller attaches sub-graphs to: the one stored
\* under "A" (GetNode("A")), when there is one.
Owners == IF "A" \in DOMAIN dags[1].nodes THEN {dags[1].nodes["A"]} ELSE {}

\* A sequence of AddVertex, AddEdge and AddForwarder calls on the graph d;
\* AddForwarder is called on the node stored under the id given.
RECURSIVE BuildCalls(_, _, _)
BuildCalls(s, d, calls) ==
    IF calls = <<>> THEN s
    ELSE LET c  == Head(calls)
             s1 == CASE c[1] = "AddVertex" -> AddVertex(s, d, c[2])
                     [] c[1] = "AddEdge" -> AddEdge(s, d, c[2], c[3]).st
                     [] c[1] = "AddForwarder" ->
                            AddForwarder(s, s.dags[d].nodes[c[2]], c[3], c[4])
         IN  BuildCalls(s1, d, Tail(calls))

\* Two vertices and no edge.
PairCalls == << <<"AddVertex", "A">>, <<"AddVertex", "B">> >>

\* The fork A->B, A->C with both edges marked as execution dependencies
\* (nil forwarder).
NilForkCalls ==
    << <<"AddEdge", "A", "B">>, <<"AddEdge", "A", "C">>,
       <<"AddForwarder", "A", "B", "nil">>, <<"AddForwarder", "A", "C", "nil">> >>

\* The calls made before the first step: on graph 1 (root) and the AddEdge
\* calls on graph 2 (sub).  Graph 1 is empty with every graph 2, the pair
\* with the empty graph 2 and with the chain, the fork with the chain and
\* with the fork.
GraphPairs ==
    {[root |-> <<>>, sub |-> e] : e \in SubGraphEdges}
    \cup {[root |-> PairCalls, sub |-> <<>>],
          [root |-> PairCalls, sub |-> << <<"X", "Y">> >>],
          [root |-> NilForkCalls, sub |-> << <<"X", "Y">> >>],
          [root |-> NilForkCalls, sub |-> << <<"X", "Y">>, <<"X", "Z">> >>]}

InitGraph ==
    /\ \E p \in GraphPairs :
          LET s2 == AddEdges([nodes |-> <<>>, dags |-> <<NewDag, NewDag>>], 2, p.sub)
              s  == BuildCalls(s2, 1, p.root)
          IN  nodes = s.nodes /\ dags = s.dags
    /\ lastOp = <<"NewDag">>
    /\ lastErr = "nil"
    /\ opCount = 0
    /\ flow = NoFlow
    /\ runPc = "idle"
    /\ nodeTask = Nil
    /\ gs = <<>>
    /\ cancelled = FALSE
    /\ sharedLoopVar = FALSE
    /\ taskFails = {}
    /\ crashed = FALSE
    /\ lastSet = EmptyMap
    /\ channel = Nil

DoAddSubDag(n, sd) ==
    /\ ~crashed
    /\ Returned(AddSubDag(st, n, sd), <<"AddSubDag", n, sd>>)

DoAddForEachDag(n, sd) ==
    /\ ~crashed
    /\ Returned(AddForEachDag(st, n, sd), <<"AddForEachDag", n, sd>>)

DoAddConditionalDag(n, condition, sd) ==
    /\ ~crashed
    /\ Returned([st |-> AddConditionalDag(st, n, condition, sd), err |-> "nil"],
                <<"AddConditionalDag", n, sd, condition>>)

DoAppend(d, appendDag) ==
    /\ ~crashed
    /\ \E order \in Orders(DOMAIN dags[appendDag].nodes) :
          Returned(DagAppend(st, d, appendDag, order), <<"Append", d, appendDag>>)

NextGraph ==
    \/ \E id \in RootIds : opCount < MaxGraphOps /\ DoAddVertex(1, id)
    \/ \E from \in RootIds, to \in RootIds : opCount < MaxGraphOps /\ DoAddEdge(1, from, to)
    \/ \E d \in Graphs : opCount < MaxGraphOps /\ DoValidate(d)
    \/ \E n \in Owners, sd \in Graphs : opCount < MaxGraphOps /\ DoAddSubDag(n, sd)
    \/ \E n \in Owners, sd \in Graphs : opCount < MaxGraphOps /\ DoAddForEachDag(n, sd)
    \/ \E n \in Owners, sd \in Graphs : opCount < MaxGraphOps /\ DoAddConditionalDag(n, "c", sd)

SpecGraph == InitGraph /\ [][NextGraph]_vars

\* ------------------------------------------------- forwarders of edges
\* One graph with the vertices A, B and C; edges between different vertices
\* are added and the forwarders of existing edges are set.
Forwarders == {"nil", "Forwarder"}

InitForward ==
    /\ LET s == BuildCalls(EmptyStore, 1,
                           << <<"AddVertex", "A">>, <<"AddVertex", "B">>, <<"AddVertex", "C">> >>)
       IN  nodes = s.nodes /\ dags = s.dags
    /\ lastOp = <<"NewDag">>
    /\ lastErr = "nil"
    /\ opCount = 0
    /\ flow = NoFlow
    /\ runPc = "idle"
    /\ nodeTask = Nil
    /\ gs = <<>>
    /\ cancelled = FALSE
    /\ sharedLoopVar = FALSE
    /\ taskFails = {}
    /\ crashed = FALSE
    /\ lastSet = EmptyMap
    /\ channel = Nil

DoAddForwarder(n, child, fwd) ==
    /\ opCount < MaxForwardOps
    /\ ~crashed
    /\ \E c \in ChildrenOf(st, n) : nodes[c].Id = child
    /\ Returned([st |-> AddForwarder(st, n, child, fwd), err |-> "nil"],
                <<"AddForwarder", n, child, fwd>>)

NextForward ==
    \/ \E from \in Ids, to \in Ids :
          from # to /\ opCount < MaxForwardOps /\ DoAddEdge(1, from, to)
    \/ \E n \in 1..Len(nodes), child \in Ids, fwd \in Forwarders : DoAddForwarder(n, child, fwd)

SpecForward == InitForward /\ [][NextForward]_vars

\* ------------------------------------------------------ nesting of graphs
\* Three graphs with one vertex each, and the calls that make a graph the
\* sub-graph of a node.
NestGraphs == {1, 2, 3}

NestIds == <<"A", "X", "P">>

InitNest ==
    /\ LET s1 == AddVertex([nodes |-> <<>>, dags |-> <<NewDag, NewDag, NewDag>>], 1, NestIds[1])
           s2 == AddVertex(s1, 2, NestIds[2])
           s  == AddVertex(s2, 3, NestIds[3])
       IN  nodes = s.nodes /\ dags = s.dags
    /\ lastOp = <<"NewDag">>
    /\ lastErr = "nil"
    /\ opCount = 0
    /\ flow = NoFlow
    /\ runPc = "idle"
    /\ nodeTask = Nil
    /\ gs = <<>>
    /\ cancelled = FALSE
    /\ sharedLoopVar = FALSE
    /\ taskFails = {}
    /\ crashed = FALSE
    /\ lastSet = EmptyMap
    /\ channel = Nil

DoAddForEach(n) ==
    /\ ~crashed
    /\ Returned([st |-> AddForEach(st, n), err |-> "nil"], <<"AddForEach", n>>)

DoAddCondition(n) ==
    /\ ~crashed
    /\ Returned([st |-> AddCondition(st, n), err |-> "nil"], <<"AddCondition", n>>)

NextNest ==
    \/ \E n \in 1..Len(nodes), sd \in NestGraphs :
          opCount < MaxNestOps /\ DoAddSubDag(n, sd)
    \/ \E n \in 1..Len(nodes), sd \in NestGraphs :
          opCount < MaxNestOps /\ DoAddForEachDag(n, sd)
    \/ \E n \in 1..Len(nodes), sd \in NestGraphs :
          opCount < MaxNestOps /\ DoAddConditionalDag(n, "c", sd)
    \/ \E n \in 1..Len(nodes) : opCount < MaxNestOps /\ DoAddForEach(n)
    \/ \E n \in 1..Len(nodes) : opCount < MaxNestOps /\ DoAddCondition(n)
    \/ \E d \in NestGraphs, appendDag \in NestGraphs :
          opCount < MaxNestOps /\ DoAppend(d, appendDag)

SpecNest == InitNest /\ [][NextNest]_vars

\* ---------------------------------------------------------- graphs to run
\* node.task = <a Task> for the nodes stored under ids.  The package has no
\* setter: in-package code assigns the field.
SetTasks(s, d, ids) ==
    [s EXCEPT !.nodes = [n \in DOMAIN s.nodes |->
        IF \E id \in ids \cap DOMAIN s.dags[d].nodes : s.dags[d].nodes[id] = n
        THEN [s.nodes[n] EXCEPT !.task = "set"] ELSE s.nodes[n]]]

DiamondEdges == << <<"A", "B">>, <<"A", "C">>, <<"B", "D">>, <<"C", "D">> >>

ForkEdges == << <<"A", "B">>, <<"A", "C">> >>

JoinEdges == << <<"A", "C">>, <<"B", "C">> >>

\* A join C of A and B whose child D has a second parent E:
\* A->B, A->C, B->C, A->E, C->D, E->D.
ChainedJoinEdges ==
    << <<"A", "B">>, <<"A", "C">>, <<"B", "C">>, <<"A", "E">>, <<"C", "D">>, <<"E", "D">> >>

\* The heaps Flow.Run is started on:
\*  - the diamond, validated, every node with a task and the join D with an
\*    aggregator;
\*  - the fork A->B, A->C, validated (Validate adds end_0), with tasks on
\*    the vertices the caller created: end_0 has none;
\*  - the join A->C, B->C, on which Validate was never called;
\*  - the chained join, validated, every node with a task.
RunGraphs ==
    LET edges   == AddEdges(EmptyStore, 1, DiamondEdges)
        diamond == AddAggregator(edges, edges.dags[1].nodes["D"])
        fork    == AddEdges(EmptyStore, 1, ForkEdges)
        join    == AddEdges(EmptyStore, 1, JoinEdges)
        chained == AddEdges(EmptyStore, 1, ChainedJoinEdges)
    IN  {SetTasks(Validate(diamond, 1, o).st, 1, {"A", "B", "C", "D"}) :
             o \in ValidateOrders(diamond)}
        \cup {SetTasks(Validate(chained, 1, o).st, 1, {"A", "B", "C", "D", "E"}) :
             o \in ValidateOrders(chained)}
        \cup {Validate(SetTasks(fork, 1, {"A", "B", "C"}), 1, o).st :
             o \in ValidateOrders(fork)}
        \cup {SetTasks(join, 1, {"A", "B", "C"})}

\* --------------------------------------------------------------- Flow.Run
\* NewFlow: readyChan is buffered with capacity len(dag.nodes), data is a new
\* data set.
NewFlow(s, d) ==
    [dag |-> d, readyChan |-> <<>>, cap |-> Cardinality(DOMAIN s.dags[d].nodes),
     data |-> NewDataSet]

\* The errors of node tasks that the value returned by Run holds: Flow has
\* the fields dag, readyChan and data, and Node has no error field.
ResultErrors(f) == {}

\* The calls of node.aggregator made by RunNode for the node n before it
\* calls node.task.Run, each with the map of inputs it is given: RunNode
\* calls node.task.Run and, deferred, RunNodeDone, and nothing else.
AggregatorCalls(n) == <<>>

\* A goroutine started by the go statement of Run.  captured is the value of
\* nodeTask when it was started, node the value it passed to RunNode, ci the
\* position in node.children of RunNodeDone's loop, reg the value loaded
\* from child.indegree, err the value RunNode returned.
NewGoroutine(n) ==
    [captured |-> n, node |-> Nil, pc |-> "spawned", ci |-> 0, reg |-> 0,
     err |-> "nil", panicking |-> FALSE]

\* What task.Run returns for the node n.
TaskResult(n) == IF nodes[n].Id \in taskFails THEN "error" ELSE "nil"

\* The end of RunNodeDone and so of RunNode: the goroutine ends, or, when the
\* deferred call ran because of a panic, the panic goes on up the stack.
Finish(r) == [r EXCEPT !.pc = IF r.panicking THEN "unwind" ELSE "done"]

\* Entry of RunNodeDone: the range loop over node.children.
EnterRunNodeDone(r) ==
    IF nodes[r.node].children = <<>> THEN Finish(r)
    ELSE [r EXCEPT !.pc = "load", !.ci = 1]

\* The next iteration of RunNodeDone's loop.
NextChild(r) ==
    IF r.ci < Len(nodes[r.node].children)
    THEN [r EXCEPT !.pc = "load", !.ci = @ + 1]
    ELSE Finish(r)

\* The child RunNodeDone's loop of goroutine g is at.
Child(g) == nodes[gs[g].node].children[gs[g].ci]

\* if child.indegree == 0, on the value v read.
ChildReady(v) == v = 0

InitRun ==
    /\ \E g \in RunGraphs :
          /\ nodes = g.nodes
          /\ dags = g.dags
          /\ flow = NewFlow(g, 1)
    /\ lastOp = <<"NewFlow">>
    /\ lastErr = "nil"
    /\ opCount = 0
    /\ runPc = "init"
    /\ nodeTask = Nil
    /\ gs = <<>>
    /\ cancelled = FALSE
    /\ sharedLoopVar \in BOOLEAN
    /\ taskFails \in {{}, {"B"}}
    /\ crashed = FALSE
    /\ lastSet = EmptyMap
    /\ channel = Nil

\* Run, first loop: every node of the graph with indegree 0 is sent to
\* readyChan, in the order the map iteration meets them.  No goroutine
\* exists yet, and the buffer holds len(dag.nodes) entries, so no send
\* blocks.
RunEnqueueInitial ==
    /\ runPc = "init"
    /\ ~crashed
    /\ LET zero == {n \in StoredNodes(st, flow.dag) : nodes[n].indegree = 0}
       IN  \E o \in Orders(zero) : flow' = [flow EXCEPT !.readyChan = o]
    /\ runPc' = "loop"
    /\ UNCHANGED <<nodes, dags, lastOp, lastErr, opCount, nodeTask, gs,
                   cancelled, sharedLoopVar, taskFails, crashed, lastSet, channel>>

\* Run, second loop: one receive from readyChan and the go statement.  The
\* channel is never closed, so the loop has no exit.
RunReceive ==
    /\ runPc = "loop"
    /\ ~crashed
    /\ flow.readyChan # <<>>
    /\ nodeTask' = Head(flow.readyChan)
    /\ flow' = [flow EXCEPT !.readyChan = Tail(@)]
    /\ gs' = IF Head(flow.readyChan) # Nil
             THEN Append(gs, NewGoroutine(Head(flow.readyChan))) ELSE gs
    /\ UNCHANGED <<nodes, dags, lastOp, lastErr, opCount, runPc,
                   cancelled, sharedLoopVar, taskFails, crashed, lastSet, channel>>

\* The closure starts: it reads nodeTask (the one variable of the loop, or
\* its own copy), calls RunNode, which registers the deferred RunNodeDone
\* and calls node.task.Run.  A nil task panics there, and the deferred call
\* runs before the panic goes on.
RunNodeStart ==
  \E g \in 1..Len(gs) :
    /\ ~crashed
    /\ gs[g].pc = "spawned"
    /\ LET n == IF sharedLoopVar THEN nodeTask ELSE gs[g].captured
       IN  gs' = [gs EXCEPT ![g] =
                    IF nodes[n].task = "nil"
                    THEN EnterRunNodeDone([@ EXCEPT !.node = n, !.panicking = TRUE])
                    ELSE [@ EXCEPT !.node = n, !.pc = "task"]]
    /\ UNCHANGED <<nodes, dags, lastOp, lastErr, opCount, flow, runPc, nodeTask,
                   cancelled, sharedLoopVar, taskFails, crashed, lastSet, channel>>

\* task.Run returns; err is set and the deferred RunNodeDone begins.  The
\* task is taken to call Set(<its node's id>, ...) on the data set it was
\* given as its last act; Set holds the write lock for its whole body, so it
\* is part of this step.
RunNodeTaskReturns ==
  \E g \in 1..Len(gs) :
    /\ ~crashed
    /\ gs[g].pc = "task"
    /\ gs' = [gs EXCEPT ![g] = EnterRunNodeDone([@ EXCEPT !.err = TaskResult(gs[g].node)])]
    /\ flow' = [flow EXCEPT !.data = DataSetWrite(@, nodes[gs[g].node].Id, "written")]
    /\ UNCHANGED <<nodes, dags, lastOp, lastErr, opCount, runPc, nodeTask,
                   cancelled, sharedLoopVar, taskFails, crashed, lastSet, channel>>

\* child.indegree--, the load.  The field is a plain int written with no
\* lock by every parent's goroutine.
RunNodeDoneLoad ==
  \E g \in 1..Len(gs) :
    /\ ~crashed
    /\ gs[g].pc = "load"
    /\ gs' = [gs EXCEPT ![g].reg = nodes[Child(g)].indegree, ![g].pc = "store"]
    /\ UNCHANGED <<nodes, dags, lastOp, lastErr, opCount, flow, runPc, nodeTask,
                   cancelled, sharedLoopVar, taskFails, crashed, lastSet, channel>>

\* child.indegree--, the store.
RunNodeDoneStore ==
  \E g \in 1..Len(gs) :
    /\ ~crashed
    /\ gs[g].pc = "store"
    /\ nodes' = [nodes EXCEPT ![Child(g)].indegree = gs[g].reg - 1]
    /\ gs' = [gs EXCEPT ![g].pc = "test"]
    /\ UNCHANGED <<dags, lastOp, lastErr, opCount, flow, runPc, nodeTask,
                   cancelled, sharedLoopVar, taskFails, crashed, lastSet, channel>>

\* if child.indegree == 0: the compiled code tests the value it has just
\* stored or loads the field again.
RunNodeDoneTest ==
  \E g \in 1..Len(gs) :
    /\ ~crashed
    /\ gs[g].pc = "test"
    /\ \E v \in {gs[g].reg - 1, nodes[Child(g)].indegree} :
          gs' = [gs EXCEPT ![g] = IF ChildReady(v) THEN [@ EXCEPT !.pc = "send"]
                                  ELSE NextChild(@)]
    /\ UNCHANGED <<nodes, dags, lastOp, lastErr, opCount, flow, runPc, nodeTask,
                   cancelled, sharedLoopVar, taskFails, crashed, lastSet, channel>>

\* flow.readyChan <- child: blocks while the buffer is full.
RunNodeDoneSend ==
  \E g \in 1..Len(gs) :
    /\ ~crashed
    /\ gs[g].pc = "send"
    /\ Len(flow.readyChan) < flow.cap
    /\ flow' = [flow EXCEPT !.readyChan = Append(@, Child(g))]
    /\ gs' = [gs EXCEPT ![g] = NextChild(@)]
    /\ UNCHANGED <<nodes, dags, lastOp, lastErr, opCount, runPc, nodeTask,
                   cancelled, sharedLoopVar, taskFails, crashed, lastSet, channel>>

\* The panic of a nil task leaves the goroutine: nothing recovers it and
\* the process ends.
RunNodePanics ==
  \E g \in 1..Len(gs) :
    /\ ~crashed
    /\ gs[g].pc = "unwind"
    /\ crashed' = TRUE
    /\ UNCHANGED <<nodes, dags, lastOp, lastErr, opCount, flow, runPc, nodeTask, gs,
                   cancelled, sharedLoopVar, taskFails, lastSet, channel>>

\* The caller cancels the ctx it gave to Run.  Run, RunNode and RunNodeDone
\* hand ctx on and never read it.  The caller is taken to cancel at a moment
\* at which no node is Ready: readyChan is empty and every goroutine started
\* so far has entered RunNode.  Whatever is dispatched later has become Ready
\* after the cancellation.
Cancel ==
    /\ ~crashed
    /\ runPc # "idle"
    /\ ~cancelled
    /\ flow.readyChan = <<>>
    /\ \A g \in 1..Len(gs) : gs[g].pc # "spawned"
    /\ cancelled' = TRUE
    /\ UNCHANGED <<nodes, dags, lastOp, lastErr, opCount, flow, runPc, nodeTask, gs,
                   sharedLoopVar, taskFails, crashed, lastSet, channel>>

NextRun ==
    \/ RunEnqueueInitial
    \/ RunReceive
    \/ RunNodeStart
    \/ RunNodeTaskReturns
    \/ RunNodeDoneLoad
    \/ RunNodeDoneStore
    \/ RunNodeDoneTest
    \/ RunNodeDoneSend
    \/ RunNodePanics
    \/ Cancel

SpecRun == InitRun /\ [][NextRun]_vars

\* ------------------------------------------- concurrent Set and Get calls
\* NumCallers goroutines call Set and Get on one data set, each any number
\* of times.  gs holds the callers: pc is the statement a caller is at,
\* key and data are the arguments of its call, res is what its last Get
\* returned.
DataKeys == {"k1", "k2"}

DataValues == {"v1", "v2"}

IdleCaller == [pc |-> "idle", key |-> "", data |-> "nil", res |-> [data |-> "nil", ok |-> FALSE]]

InitData ==
    /\ nodes = <<>>
    /\ dags = <<>>
    /\ lastOp = <<"NewDataSet">>
    /\ lastErr = "nil"
    /\ opCount = 0
    /\ flow = [NoFlow EXCEPT !.data = NewDataSet]
    /\ runPc = "idle"
    /\ nodeTask = Nil
    /\ gs = [g \in 1..NumCallers |-> IdleCaller]
    /\ cancelled = FALSE
    /\ sharedLoopVar = FALSE
    /\ taskFails = {}
    /\ crashed = FALSE
    /\ lastSet = EmptyMap
    /\ channel = Nil

\* A caller enters Set(key, data).
CallSet(g, key, data) ==
    /\ gs[g].pc = "idle"
    /\ gs' = [gs EXCEPT ![g] = [@ EXCEPT !.pc = "Lock", !.key = key, !.data = data]]
    /\ UNCHANGED <<nodes, dags, lastOp, lastErr, opCount, flow, runPc, nodeTask,
                   cancelled, sharedLoopVar, taskFails, crashed, lastSet, channel>>

\* dataSet.lock.Lock()
SetLock(g) ==
    /\ gs[g].pc = "Lock"
    /\ CanLock(flow.data.lock)
    /\ flow' = [flow EXCEPT !.data.lock.w = TRUE]
    /\ gs' = [gs EXCEPT ![g].pc = "write"]
    /\ UNCHANGED <<nodes, dags, lastOp, lastErr, opCount, runPc, nodeTask,
                   cancelled, sharedLoopVar, taskFails, crashed, lastSet, channel>>

\* dataSet.data[key] = data
SetWrite(g) ==
    /\ gs[g].pc = "write"
    /\ flow' = [flow EXCEPT !.data = DataSetWrite(@, gs[g].key, gs[g].data)]
    /\ gs' = [gs EXCEPT ![g].pc = "Unlock"]
    /\ UNCHANGED <<nodes, dags, lastOp, lastErr, opCount, runPc, nodeTask,
                   cancelled, sharedLoopVar, taskFails, crashed, lastSet, channel>>

\* The deferred dataSet.lock.Unlock(); Set returns and the call is complete.
SetUnlock(g) ==
    /\ gs[g].pc = "Unlock"
    /\ flow' = [flow EXCEPT !.data.lock.w = FALSE]
    /\ gs' = [gs EXCEPT ![g].pc = "idle"]
    /\ lastSet' = MapPut(lastSet, gs[g].key, gs[g].data)
    /\ UNCHANGED <<nodes, dags, lastOp, lastErr, opCount, runPc, nodeTask,
                   cancelled, sharedLoopVar, taskFails, crashed, channel>>

\* A caller enters Get(key).
CallGet(g, key) ==
    /\ gs[g].pc = "idle"
    /\ gs' = [gs EXCEPT ![g] = [@ EXCEPT !.pc = "RLock", !.key = key, !.data = "nil"]]
    /\ UNCHANGED <<nodes, dags, lastOp, lastErr, opCount, flow, runPc, nodeTask,
                   cancelled, sharedLoopVar, taskFails, crashed, lastSet, channel>>

\* dataSet.lock.RLock()
GetRLock(g) ==
    /\ gs[g].pc = "RLock"
    /\ CanRLock(flow.data.lock)
    /\ flow' = [flow EXCEPT !.data.lock.r = @ + 1]
    /\ gs' = [gs EXCEPT ![g].pc = "read"]
    /\ UNCHANGED <<nodes, dags, lastOp, lastErr, opCount, runPc, nodeTask,
                   cancelled, sharedLoopVar, taskFails, crashed, lastSet, channel>>

\* data, ok = dataSet.data[key]
GetRead(g) ==
    /\ gs[g].pc = "read"
    /\ gs' = [gs EXCEPT ![g] = [@ EXCEPT !.pc = "RUnlock",
                                         !.res = DataSetRead(flow.data, gs[g].key)]]
    /\ UNCHANGED <<nodes, dags, lastOp, lastErr, opCount, flow, runPc, nodeTask,
                   cancelled, sharedLoopVar, taskFails, crashed, lastSet, channel>>

\* The deferred dataSet.lock.RUnlock(); Get returns res.
GetRUnlock(g) ==
    /\ gs[g].pc = "RUnlock"
    /\ flow' = [flow EXCEPT !.data.lock.r = @ - 1]
    /\ gs' = [gs EXCEPT ![g].pc = "idle"]
    /\ UNCHANGED <<nodes, dags, lastOp, lastErr, opCount, runPc, nodeTask,
                   cancelled, sharedLoopVar, taskFails, crashed, lastSet, channel>>

NextData ==
    \/ \E g \in 1..NumCallers, key \in DataKeys, data \in DataValues : CallSet(g, key, data)
    \/ \E g \in 1..NumCallers : SetLock(g)
    \/ \E g \in 1..NumCallers : SetWrite(g)
    \/ \E g \in 1..NumCallers : SetUnlock(g)
    \/ \E g \in 1..NumCallers, key \in DataKeys : CallGet(g, key)
    \/ \E g \in 1..NumCallers : GetRLock(g)
    \/ \E g \in 1..NumCallers : GetRead(g)
    \/ \E g \in 1..NumCallers : GetRUnlock(g)

SpecData == InitData /\ [][NextData]_vars

\* ------------------------------------------------------------ channel.go
\* The channel struct after New(WithSize(size)) or, with nonblock,
\* New(WithSize(size), WithNonBlock()): no timeout and no throttle.  lock is
\* the goroutine holding bufferLock (0: none), waiters the goroutines in
\* bufferCond.Wait in the order they began to wait, consumerClosed whether
\* close(c.consumer) has run.  accepted lists the values put into the buffer
\* and delivered the values received from Output, both in order.
defaultMinSize == 1

WithSize(c, size) ==
    IF size >= defaultMinSize /\ ~c.nonblock THEN [c EXCEPT !.size = size] ELSE c

WithNonBlock(c) == [c EXCEPT !.nonblock = TRUE]

NewChannel(size, nonblock) ==
    LET c0 == [size |-> defaultMinSize, state |-> 0, nonblock |-> FALSE, timeout |-> 0,
               produced |-> 0, consumed |-> 0, buffer |-> <<>>,
               lock |-> 0, waiters |-> <<>>, consumerClosed |-> FALSE,
               accepted |-> <<>>, delivered |-> <<>>]
        c1 == WithSize(c0, size)
    IN  IF nonblock THEN WithNonBlock(c1) ELSE c1

ChannelSizes == {1, 2}

\* The goroutine New starts with go c.consume().
Consumer == 1

\* The goroutines that call Input and Close.
Callers == 2..(NumProducers + 1)

\* item.IsExpired, on a clock that reads now.
IsExpired(it, now) == IF it.deadline = 0 THEN FALSE ELSE now > it.deadline

\* channel.isClosed
isClosed(c) == c.state < 0

\* The test of Input's wait loop that lets every item in.
BufferFull_Never(c) == FALSE

\* c.buffer.Len() >= c.size
BufferFull(c) == Len(c.buffer) >= c.size

\* The goroutines of ws leave bufferCond.Wait; each has to take bufferLock
\* again before Wait returns.
Notify(g, ws) == [h \in DOMAIN g |-> IF h \in ws THEN [g[h] EXCEPT !.pc = "Relock"] ELSE g[h]]

\* bufferCond.Signal(): the goroutine waiting longest is woken.
Signal ==
    IF channel.waiters = <<>> THEN UNCHANGED channel
    ELSE channel' = [channel EXCEPT !.waiters = Tail(@)]

\* bufferCond.Wait(), first part: the caller joins the waiters and releases
\* bufferLock.
CondWait(c, g) == [c EXCEPT !.waiters = Append(@, g), !.lock = 0]

ChannelFrame ==
    UNCHANGED <<nodes, dags, lastOp, lastErr, flow, runPc, nodeTask,
                cancelled, sharedLoopVar, taskFails, crashed, lastSet>>

InitChannel ==
    /\ nodes = <<>>
    /\ dags = <<>>
    /\ lastOp = <<"New">>
    /\ lastErr = "nil"
    /\ opCount = 0
    /\ flow = NoFlow
    /\ runPc = "idle"
    /\ nodeTask = Nil
    /\ gs = [g \in 1..(NumProducers + 1) |->
               [pc |-> IF g = Consumer THEN "Lock" ELSE "idle",
                it |-> [value |-> 0, deadline |-> 0]]]
    /\ cancelled = FALSE
    /\ sharedLoopVar = FALSE
    /\ taskFails = {}
    /\ crashed = FALSE
    /\ lastSet = EmptyMap
    /\ \E size \in ChannelSizes, nonblock \in BOOLEAN : channel = NewChannel(size, nonblock)

\* A caller enters Input(v); v numbers the Input calls.  it is the item
\* Input prepares: without timeout its deadline is the zero time.
CallInput(g) ==
    /\ gs[g].pc = "idle"
    /\ opCount < MaxInputs
    /\ opCount' = opCount + 1
    /\ gs' = [gs EXCEPT ![g] = [pc |-> "isClosed", it |-> [value |-> opCount + 1, deadline |-> 0]]]
    /\ UNCHANGED channel
    /\ ChannelFrame

\* if c.isClosed() { return }
InputIsClosed(g) ==
    /\ gs[g].pc = "isClosed"
    /\ gs' = [gs EXCEPT ![g].pc = IF isClosed(channel) THEN "idle" ELSE "Lock"]
    /\ UNCHANGED <<channel, opCount>>
    /\ ChannelFrame

\* c.bufferLock.Lock()
InputLock(g) ==
    /\ gs[g].pc = "Lock"
    /\ channel.lock = 0
    /\ channel' = [channel EXCEPT !.lock = g]
    /\ gs' = [gs EXCEPT ![g].pc = IF channel.nonblock THEN "enqueue" ELSE "full"]
    /\ UNCHANGED opCount
    /\ ChannelFrame

\* for c.buffer.Len() >= c.size
InputTestFull(g) ==
    /\ gs[g].pc = "full"
    /\ gs' = [gs EXCEPT ![g].pc = IF BufferFull(channel) THEN "Wait" ELSE "enqueue"]
    /\ UNCHANGED <<channel, opCount>>
    /\ ChannelFrame

\* c.bufferCond.Wait(), until woken.
InputWait(g) ==
    /\ gs[g].pc = "Wait"
    /\ channel' = CondWait(channel, g)
    /\ gs' = [gs EXCEPT ![g].pc = "parked"]
    /\ UNCHANGED opCount
    /\ ChannelFrame

\* Wait takes bufferLock again and returns.
InputRelock(g) ==
    /\ gs[g].pc = "Relock"
    /\ channel.lock = 0
    /\ channel' = [channel EXCEPT !.lock = g]
    /\ gs' = [gs EXCEPT ![g].pc = "woken"]
    /\ UNCHANGED opCount
    /\ ChannelFrame

\* if c.isClosed() { c.bufferLock.Unlock(); return }
InputWoken(g) ==
    /\ gs[g].pc = "woken"
    /\ IF isClosed(channel)
       THEN /\ channel' = [channel EXCEPT !.lock = 0]
            /\ gs' = [gs EXCEPT ![g].pc = "idle"]
       ELSE /\ gs' = [gs EXCEPT ![g].pc = "full"]
            /\ UNCHANGED channel
    /\ UNCHANGED opCount
    /\ ChannelFrame

\* c.enqueueBuffer(it); atomic.AddUint64(&c.produced, 1); c.bufferLock.Unlock()
InputEnqueue(g) ==
    /\ gs[g].pc = "enqueue"
    /\ channel' = [channel EXCEPT !.buffer = Append(@, gs[g].it),
                                  !.produced = @ + 1,
                                  !.lock = 0,
                                  !.accepted = Append(@, gs[g].it.value)]
    /\ gs' = [gs EXCEPT ![g].pc = "Signal"]
    /\ UNCHANGED opCount
    /\ ChannelFrame

\* c.bufferCond.Signal(); Input returns.
InputSignal(g) ==
    /\ gs[g].pc = "Signal"
    /\ Signal
    /\ gs' = [Notify(gs, IF channel.waiters = <<>> THEN {} ELSE {Head(channel.waiters)})
                EXCEPT ![g].pc = "idle"]
    /\ UNCHANGED opCount
    /\ ChannelFrame

\* Close: the compare-and-swap of state from 0 to -1; a caller that finds
\* another state returns.
CallClose(g) ==
    /\ gs[g].pc = "idle"
    /\ IF channel.state = 0
       THEN /\ channel' = [channel EXCEPT !.state = -1]
            /\ gs' = [gs EXCEPT ![g].pc = "Broadcast"]
       ELSE UNCHANGED <<channel, gs>>
    /\ UNCHANGED opCount
    /\ ChannelFrame

\* Close: c.bufferCond.Broadcast()
CloseBroadcast(g) ==
    /\ gs[g].pc = "Broadcast"
    /\ channel' = [channel EXCEPT !.waiters = <<>>]
    /\ gs' = [Notify(gs, {channel.waiters[i] : i \in DOMAIN channel.waiters})
                EXCEPT ![g].pc = "idle"]
    /\ UNCHANGED opCount
    /\ ChannelFrame

\* consume: c.bufferLock.Lock() at the top of the loop, and Wait taking the
\* lock again.
ConsumeLock ==
    /\ gs[Consumer].pc \in {"Lock", "Relock"}
    /\ channel.lock = 0
    /\ channel' = [channel EXCEPT !.lock = Consumer]
    /\ gs' = [gs EXCEPT ![Consumer].pc = "empty"]
    /\ UNCHANGED opCount
    /\ ChannelFrame

\* for c.buffer.Len() == 0
ConsumeTestEmpty ==
    /\ gs[Consumer].pc = "empty"
    /\ gs' = [gs EXCEPT ![Consumer].pc = IF Len(channel.buffer) = 0 THEN "isClosed" ELSE "dequeue"]
    /\ UNCHANGED <<channel, opCount>>
    /\ ChannelFrame

\* if c.isClosed() { close(c.consumer); state = -2; Unlock; return }
ConsumeIsClosed ==
    /\ gs[Consumer].pc = "isClosed"
    /\ IF isClosed(channel)
       THEN /\ channel' = [channel EXCEPT !.consumerClosed = TRUE, !.state = -2, !.lock = 0]
            /\ gs' = [gs EXCEPT ![Consumer].pc = "returned"]
       ELSE /\ gs' = [gs EXCEPT ![Consumer].pc = "Wait"]
            /\ UNCHANGED channel
    /\ UNCHANGED opCount
    /\ ChannelFrame

\* c.bufferCond.Wait(), until woken.
ConsumeWait ==
    /\ gs[Consumer].pc = "Wait"
    /\ channel' = CondWait(channel, Consumer)
    /\ gs' = [gs EXCEPT ![Consumer].pc = "parked"]
    /\ UNCHANGED opCount
    /\ ChannelFrame

\* it, ok := c.dequeueBuffer(); c.bufferLock.Unlock()
ConsumeDequeue ==
    /\ gs[Consumer].pc = "dequeue"
    /\ channel' = [channel EXCEPT !.buffer = Tail(@), !.lock = 0]
    /\ gs' = [gs EXCEPT ![Consumer] = [pc |-> "Broadcast", it |-> Head(channel.buffer)]]
    /\ UNCHANGED opCount
    /\ ChannelFrame

\* c.bufferCond.Broadcast(), then the test it.IsExpired(): an expired item is
\* counted as consumed and dropped.
ConsumeBroadcast ==
    /\ gs[Consumer].pc = "Broadcast"
    /\ \E now \in {1} :
         IF IsExpired(gs[Consumer].it, now)
         THEN /\ channel' = [channel EXCEPT !.waiters = <<>>, !.consumed = @ + 1]
              /\ gs' = [Notify(gs, {channel.waiters[i] : i \in DOMAIN channel.waiters})
                          EXCEPT ![Consumer].pc = "Lock"]
         ELSE /\ channel' = [channel EXCEPT !.waiters = <<>>]
              /\ gs' = [Notify(gs, {channel.waiters[i] : i \in DOMAIN channel.waiters})
                          EXCEPT ![Consumer].pc = "send"]
    /\ UNCHANGED opCount
    /\ ChannelFrame

\* c.consumer <- it.value, received by the reader of Output, and
\* atomic.AddUint64(&c.consumed, 1).
ConsumeSend ==
    /\ gs[Consumer].pc = "send"
    /\ channel' = [channel EXCEPT !.delivered = Append(@, gs[Consumer].it.value),
                                  !.consumed = @ + 1]
    /\ gs' = [gs EXCEPT ![Consumer].pc = "Lock"]
    /\ UNCHANGED opCount
    /\ ChannelFrame

NextChannel ==
    \/ \E g \in Callers : CallInput(g)
    \/ \E g \in Callers : InputIsClosed(g)
    \/ \E g \in Callers : InputLock(g)
    \/ \E g \in Callers : InputTestFull(g)
    \/ \E g \in Callers : InputWait(g)
    \/ \E g \in Callers : InputRelock(g)
    \/ \E g \in Callers : InputWoken(g)
    \/ \E g \in Callers : InputEnqueue(g)
    \/ \E g \in Callers : InputSignal(g)
    \/ \E g \in Callers : CallClose(g)
    \/ \E g \in Callers : CloseBroadcast(g)
    \/ ConsumeLock
    \/ ConsumeTestEmpty
    \/ ConsumeIsClosed
    \/ ConsumeWait
    \/ ConsumeDequeue
    \/ ConsumeBroadcast
    \/ ConsumeSend

SpecChannel == InitChannel /\ [][NextChannel]_vars

\* ------------------------------------------------- observations of a run
\* RunNode has called node.task.Run in goroutine g.
TaskStarted(g) == gs[g].pc # "spawned"

\* node.task.Run has returned in goroutine g (the node has reached Done).
TaskReturned(g) ==
    /\ gs[g].pc \in {"load", "store", "test", "send", "done"}
    /\ ~gs[g].panicking

StartedGoroutines == {g \in 1..Len(gs) : TaskStarted(g)}

\* A goroutine has run the node n to the end of RunNode.
NodeDone(n) == \E g \in 1..Len(gs) : gs[g].node = n /\ gs[g].pc = "done"

\* The graph given to NewFlow has been validated.
Validated == dags[1].validated

\* Every node has a task, so every call of task.Run returns.
AllTasksSet == \A n \in 1..Len(nodes) : nodes[n].task = "set"

\* Nothing is left to do: Run waits in its receive on an empty readyChan and
\* every goroutine it started has ended.
Quiescent ==
    /\ runPc = "loop"
    /\ ~crashed
    /\ flow.readyChan = <<>>
    /\ \A g \in 1..Len(gs) : gs[g].pc = "done"

\* How often n was sent to readyChan and not yet lost from view: entries of
\* the buffer plus goroutines started for it.
TimesEnqueued(n) ==
    Cardinality({i \in 1..Len(flow.readyChan) : flow.readyChan[i] = n})
    + Cardinality({g \in 1..Len(gs) : gs[g].captured = n})

TimesStarted(n) == Cardinality({g \in StartedGoroutines : gs[g].node = n})

\* -------------------------------------------------------------- claims

\* C1: in a run of a validated graph, no node's task starts before the task
\* of every one of its parents has returned, in every interleaving of the
\* dispatcher and the completing nodes.  Stated for the build in which every
\* closure has its own copy of the loop variable.
C1_JoinBarrier ==
    (Validated /\ ~sharedLoopVar) =>
        \A g \in StartedGoroutines :
            \A p \in ParentsOf(st, gs[g].node) :
                \E h \in 1..Len(gs) : gs[h].node = p /\ TaskReturned(h)

\* C2: in a run of a validated graph each node is put on the ready queue and
\* its task is started at most once, also when two parents of one child
\* complete concurrently.  Stated for the build in which every closure has
\* its own copy of the loop variable.
C2_EnqueuedAndStartedAtMostOnce ==
    (Validated /\ ~sharedLoopVar) =>
        \A n \in 1..Len(nodes) : TimesEnqueued(n) <= 1 /\ TimesStarted(n) <= 1

\* C3: in a run of a validated graph in which every task returns, every node
\* reaches Done: when nothing is left to run, no node is still waiting for a
\* decrement of its indegree.  Stated for the build in which every closure
\* has its own copy of the loop variable.
C3_EveryNodeReachesDone ==
    (Validated /\ ~sharedLoopVar /\ AllTasksSet /\ Quiescent) =>
        \A n \in StoredNodes(st, 1) : NodeDone(n)

\* C4: Run on a validated graph in which every task returns returns to its
\* caller once the last node has reached Done.
C4_RunReturnsAfterLastNode ==
    (Validated /\ AllTasksSet /\ Quiescent /\ \A n \in StoredNodes(st, 1) : NodeDone(n))
        => runPc = "returned"

\* C5: when a node's task returns an error, the error is recorded against
\* the node and is part of the result Run gives its caller.
C5_TaskErrorRecorded ==
    Validated =>
        \A g \in 1..Len(gs) :
            (gs[g].pc = "done" /\ gs[g].err # "nil") => gs[g].node \in ResultErrors(flow)

\* C6: a task error does not stop the run: with a failed task (B in the
\* diamond), every other node of the graph is still executed once its own
\* parents are Done.
C6_ErrorDoesNotStopRun ==
    (Validated /\ ~sharedLoopVar /\ AllTasksSet /\ Quiescent
        /\ \E g \in 1..Len(gs) : gs[g].err # "nil")
        => \A n \in StoredNodes(st, 1) : TimesStarted(n) >= 1

\* C7: Run on a graph that has not been successfully validated starts no
\* task.
C7_UnvalidatedGraphStartsNoTask ==
    ~Validated => StartedGoroutines = {}

\* C8: once the cancellation signal has fired, no node that becomes Ready
\* afterwards is dispatched: no task is started after the cancellation.
C8_NoStartAfterCancel ==
    [][(Validated /\ cancelled) => StartedGoroutines' = StartedGoroutines]_vars

\* C9: after any sequence of AddVertex and AddEdge calls, successful or
\* rejected, the edge relation (children) of the graph is acyclic, an edge
\* from a vertex id to itself included.
C9_EdgeRelationAcyclic == Acyclic(st, 1)

\* C10: an AddEdge call rejected with the cyclic-dependency error leaves the
\* graph unchanged: the vertex set, every node's degrees, children,
\* dependsOn, next/prev caches and forwarders, and the graph's flags and
\* counters are what they were before the call.
C10_CyclicRejectionLeavesGraphUnchanged ==
    [][(opCount' = opCount + 1 /\ lastOp'[1] = "AddEdge" /\ lastErr' = "ErrCyclic")
        => (nodes' = nodes /\ dags' = dags)]_vars

\* An AddEdge call has just been rejected as cyclic on a graph with edges.
C10_Witness ==
    /\ lastOp[1] = "AddEdge"
    /\ lastErr = "ErrCyclic"
    /\ dags[1].hasEdge

\* One step is the call op (its name) on the graph d.
IsCall(name) == opCount' = opCount + 1 /\ lastOp'[1] = name

C12_DuplicateVertexRejected ==
    [][(IsCall("AddVertex") /\ lastOp'[2] \in DOMAIN dags[1].nodes)
          => /\ lastErr' = "ErrDuplicateVertex"
             /\ dags'[1].nodes[lastOp'[2]] = dags[1].nodes[lastOp'[2]]
             /\ dags'[1].nodeIndex = dags[1].nodeIndex]_vars

\* C13: every node's indegree is the length of its dependsOn and its
\* outdegree the length of its children, after any sequence of AddVertex,
\* AddEdge, sub-graph attachment and Validate calls.
C13_DegreesMatchAdjacency ==
    \A n \in 1..Len(nodes) :
        /\ nodes[n].indegree = Len(nodes[n].dependsOn)
        /\ nodes[n].outdegree = Len(nodes[n].children)

\* Graph 2, attached to a node of graph 1, was validated with graph 1 and
\* got an exit node with two parents.
C13_Witness ==
    /\ dags[1].validated
    /\ dags[2].validated
    /\ \E n \in 1..Len(nodes) :
          /\ nodes[n].subDag = 2
          /\ nodes[dags[2].endNode].indegree = 2
          /\ nodes[dags[2].endNode].Id = "end_" \o ToString(nodes[n].index)

\* The nodes the graph d holds with indegree 0, and those with outdegree 0.
InitialNodes(s, d) == {n \in StoredNodes(s, d) : s.nodes[n].indegree = 0}

ExitNodes(s, d) == {n \in StoredNodes(s, d) : s.nodes[n].outdegree = 0}

\* C14: on a graph built by AddVertex and AddEdge and not validated yet,
\* Validate returns nil if and only if the graph holds a vertex, its edge
\* relation is acyclic and exactly one of its nodes has indegree 0.
C14_ValidateSucceedsIffWellFormed ==
    [][(IsCall("Validate") /\ ~dags[1].validated)
          => ((lastErr' = "nil")
                <=> /\ StoredNodes(st, 1) # {}
                    /\ Acyclic(st, 1)
                    /\ Cardinality(InitialNodes(st, 1)) = 1)]_vars

\* C15: a Validate call on a graph built with AddVertex, AddEdge and the
\* sub-graph calls returns nil or an error value; it never ends in a panic
\* or a stack overflow.  Stated for graphs whose edge relations are acyclic.
C15_ValidateNeverAborts ==
    (lastOp[1] = "Validate" /\ \A d \in DOMAIN dags : Acyclic(st, d))
        => lastErr \notin Aborts

\* C16: when Validate has returned nil for a graph, exactly one node of the
\* graph has indegree 0 and it is initialNode, and exactly one has
\* outdegree 0 and it is endNode.  Stated for the first validation of a
\* graph whose edge relation was acyclic when Validate was called.
C16_OneInitialOneExit ==
    [][(IsCall("Validate") /\ lastErr' = "nil"
        /\ ~dags[lastOp'[2]].validated /\ Acyclic(st, lastOp'[2]))
          => LET d  == lastOp'[2]
                 s1 == [nodes |-> nodes', dags |-> dags']
             IN  /\ InitialNodes(s1, d) = {dags'[d].initialNode}
                 /\ ExitNodes(s1, d) = {dags'[d].endNode}]_vars

\* The graph built by AddEdge(A, C) and AddEdge(B, C), in either order of
\* the two calls.
JoinStores ==
    {AddEdges(EmptyStore, 1, JoinEdges),
     AddEdges(EmptyStore, 1, << <<"B", "C">>, <<"A", "C">> >>)}

\* C17: for the graph built by AddEdge(A, C) and AddEdge(B, C), Validate
\* returns nil, hasBranch is true and the exit node is C.
C17_JoinGraphValidates ==
    [][(IsCall("Validate") /\ st \in JoinStores)
          => /\ lastErr' = "nil"
             /\ dags'[1].hasBranch
             /\ dags'[1].endNode = dags[1].nodes["C"]]_vars

\* C17 as amended: for that graph Validate returns ErrMultipleStart (A and
\* B both have indegree 0); hasBranch is true; no exit node is set and the
\* graph is not validated.
C17_JoinGraphHasMultipleStart ==
    [][(IsCall("Validate") /\ st \in JoinStores)
          => /\ lastErr' = "ErrMultipleStart"
             /\ dags'[1].hasBranch
             /\ dags'[1].endNode = Nil
             /\ ~dags'[1].validated]_vars

C17_Witness ==
    /\ lastOp = <<"Validate", 1>>
    /\ lastErr = "ErrMultipleStart"
    /\ opCount = 3
    /\ Len(nodes) = 3
    /\ EdgeExists(st, 1, "A", "C")
    /\ EdgeExists(st, 1, "B", "C")

\* No node the graph d holds owns a sub-graph or a conditional sub-graph.
NoSubGraphs(s, d) ==
    \A n \in StoredNodes(s, d) :
        s.nodes[n].subDag = Nil /\ DOMAIN s.nodes[n].conditionalDags = {}

\* C18: when Validate finds more than one node with outdegree 0 (and at
\* most one with indegree 0), it adds exactly one node with the id
\* end_<graphId>, adds an edge from every original exit to it, sets the
\* forwarder of each of those edges to nil and makes it the exit node, the
\* only node with outdegree 0 afterwards.  Stated for the first validation
\* of a graph without sub-graphs whose edge relation is acyclic.
C18_SyntheticExitNode ==
    [][(/\ IsCall("Validate")
        /\ ~dags[lastOp'[2]].validated
        /\ NoSubGraphs(st, lastOp'[2])
        /\ Acyclic(st, lastOp'[2])
        /\ Cardinality(InitialNodes(st, lastOp'[2])) <= 1
        /\ Cardinality(ExitNodes(st, lastOp'[2])) > 1)
          => LET d     == lastOp'[2]
                 endId == "end_" \o dags[d].Id
                 s1    == [nodes |-> nodes', dags |-> dags']
                 e     == Len(nodes')
             IN  /\ lastErr' = "nil"
                 /\ Len(nodes') = Len(nodes) + 1
                 /\ nodes'[e].Id = endId
                 /\ StoredNodes(s1, d) = StoredNodes(st, d) \cup {e}
                 /\ ParentsOf(s1, e) = ExitNodes(st, d)
                 /\ \A b \in ExitNodes(st, d) :
                       /\ ChildrenOf(s1, b) = {e}
                       /\ ForwarderGet(nodes'[b].forwarder, endId) = "nil"
                 /\ dags'[d].endNode = e
                 /\ ExitNodes(s1, d) = {e}]_vars

\* C19: once a graph is validated it stays validated under every later
\* call, and every later Validate call on it returns nil and changes
\* nothing: no unique id and no graph id is written, no node or edge added.
C19_ValidateIdempotent ==
    [][\A d \in DOMAIN dags :
          dags[d].validated
            => /\ dags'[d].validated
               /\ (IsCall("Validate") /\ lastOp'[2] = d)
                    => (lastErr' = "nil" /\ nodes' = nodes /\ dags' = dags)]_vars

\* Validate has returned nil for a validated graph to which a vertex was
\* added after its validation: the vertex has no unique id.
C19_Witness ==
    /\ lastOp = <<"Validate", 1>>
    /\ lastErr = "nil"
    /\ dags[1].validated
    /\ \E n \in StoredNodes(st, 1) : n # dags[1].endNode /\ nodes[n].uniqueId = ""

\* C20: Validate on a graph with no vertices returns ErrNoVertex and leaves
\* validated false; validated becomes true only in a Validate call, and
\* when the call is on the graph itself, only if it returns nil.
C20_EmptyGraphRejected ==
    [][\A d \in DOMAIN dags :
          /\ (IsCall("Validate") /\ lastOp'[2] = d /\ StoredNodes(st, d) = {})
                => (lastErr' = "ErrNoVertex" /\ ~dags'[d].validated)
          /\ (~dags[d].validated /\ dags'[d].validated)
                => (IsCall("Validate") /\ (lastOp'[2] = d => lastErr' = "nil"))]_vars

\* Validate was called on the empty graph 2, after graph 1 was validated.
C20_Witness ==
    /\ lastOp = <<"Validate", 2>>
    /\ lastErr = "ErrNoVertex"
    /\ StoredNodes(st, 2) = {}
    /\ ~dags[2].validated
    /\ dags[1].validated

\* C21: Validate on a graph in which more than one node has indegree 0
\* returns ErrMultipleStart, whatever the number of exit nodes and whatever
\* sub-graphs its nodes own.  Stated for a graph not validated yet.
C21_MultipleStartRejected ==
    [][(/\ IsCall("Validate")
        /\ ~dags[lastOp'[2]].validated
        /\ Cardinality(InitialNodes(st, lastOp'[2])) > 1)
          => lastErr' = "ErrMultipleStart"]_vars

\* C21 as amended: such a call never returns nil and leaves validated
\* false; it returns ErrMultipleStart when no node of the graph owns a
\* sub-graph, and otherwise that error or the outcome of the validation of
\* a sub-graph, which the loop meets first.
C21_MultipleStartNeverValidates ==
    [][(/\ IsCall("Validate")
        /\ ~dags[lastOp'[2]].validated
        /\ Cardinality(InitialNodes(st, lastOp'[2])) > 1)
          => /\ lastErr' # "nil"
             /\ ~dags'[lastOp'[2]].validated
             /\ NoSubGraphs(st, lastOp'[2]) => lastErr' = "ErrMultipleStart"]_vars

\* Validate of the graph 1 with the initial nodes A and B, of which A owns
\* the empty graph 2, has returned the error of graph 2.
C21_Witness ==
    /\ lastOp = <<"Validate", 1>>
    /\ lastErr = "ErrNoVertex"
    /\ Cardinality(InitialNodes(st, 1)) > 1
    /\ \E n \in StoredNodes(st, 1) : nodes[n].subDag = 2
    /\ StoredNodes(st, 2) = {}

\* The graphs met by walking up from graph d through the owning nodes
\* (Dag.parentNode, Node.parentDag), d itself included.
RECURSIVE ChainGraphs(_, _, _)
ChainGraphs(s, d, seen) ==
    IF d = Nil \/ d \in seen THEN seen
    ELSE LET parentNode == s.dags[d].parentNode
         IN  IF parentNode = Nil THEN seen \cup {d}
             ELSE ChainGraphs(s, s.nodes[parentNode].parentDag, seen \cup {d})

\* C22: AddSubDag(node, g) returns ErrRecursiveDep whenever g is the node's
\* own graph or a graph met by walking up the chain of owning nodes, and the
\* rejected call changes nothing: the node's sub-graph and g's owning node
\* stay as they were.
C22_RecursiveSubDagRejected ==
    [][(IsCall("AddSubDag")
          /\ lastOp'[3] \in ChainGraphs(st, nodes[lastOp'[2]].parentDag, {}))
        => /\ lastErr' = "ErrRecursiveDep"
           /\ nodes'[lastOp'[2]].subDag = nodes[lastOp'[2]].subDag
           /\ dags'[lastOp'[3]].parentNode = dags[lastOp'[3]].parentNode
           /\ nodes' = nodes /\ dags' = dags]_vars

\* An ancestor graph (not the node's own graph) was refused.
C22_Witness ==
    /\ lastOp[1] = "AddSubDag"
    /\ lastErr = "ErrRecursiveDep"
    /\ lastOp[3] # nodes[lastOp[2]].parentDag
    /\ lastOp[3] \in ChainGraphs(st, nodes[lastOp[2]].parentDag, {})

\* The graphs attached to the nodes of graph d, as sub-graph or as
\* conditional sub-graph.
SubGraphsOf(s, d) ==
    {s.nodes[n].subDag : n \in {m \in StoredNodes(s, d) : s.nodes[m].subDag # Nil}}
      \cup UNION {{s.nodes[n].conditionalDags[c] : c \in DOMAIN s.nodes[n].conditionalDags}
                    : n \in StoredNodes(s, d)}

\* The graphs nested in graph d, directly or transitively.
RECURSIVE NestedFrom(_, _)
NestedFrom(s, seen) ==
    LET more == seen \cup UNION {SubGraphsOf(s, g) : g \in seen}
    IN  IF more = seen THEN seen ELSE NestedFrom(s, more)

NestedIn(s, d) == NestedFrom(s, SubGraphsOf(s, d))

\* C23: after any sequence of AddSubDag, AddForEachDag and AddConditionalDag
\* calls no graph is nested inside itself, directly or transitively.
C23_NoGraphNestedInItself ==
    \A d \in 1..Len(dags) : d \notin NestedIn(st, d)

\* C26 as claimed: after AddForEachDag or AddConditionalDag on a node the
\* owning graph has hasBranch and hasEdge true, the node is dynamic and the
\* owning graph's executionFlow is false.
C26_BranchCallMarksDynamic ==
    [][(IsCall("AddForEachDag") \/ IsCall("AddConditionalDag"))
        => LET n == lastOp'[2]
               d == nodes[n].parentDag
           IN  /\ dags'[d].hasBranch /\ dags'[d].hasEdge
               /\ nodes'[n].dynamic
               /\ ~dags'[d].executionFlow]_vars

\* C26 amended: AddForEachDag and AddConditionalDag set hasBranch and hasEdge
\* of the owning graph and leave the node's dynamic flag and the graph's
\* executionFlow as they were; AddForEach and AddCondition are the calls
\* after which the node is dynamic and the owning graph's executionFlow is
\* false.
C26_BranchCallSetsFlagsOnly ==
    [][/\ (IsCall("AddForEachDag") \/ IsCall("AddConditionalDag"))
          => LET n == lastOp'[2]
                 d == nodes[n].parentDag
             IN  /\ dags'[d].hasBranch /\ dags'[d].hasEdge
                 /\ nodes'[n].dynamic = nodes[n].dynamic
                 /\ dags'[d].executionFlow = dags[d].executionFlow
       /\ (IsCall("AddForEach") \/ IsCall("AddCondition"))
          => LET n == lastOp'[2]
                 d == nodes[n].parentDag
             IN  /\ nodes'[n].dynamic
                 /\ ~dags'[d].executionFlow]_vars

\* A fan-out sub-graph was attached to a node that is not dynamic, in a graph
\* whose executionFlow is still true.
C26_Witness ==
    /\ lastOp[1] = "AddForEachDag"
    /\ ~nodes[lastOp[2]].dynamic
    /\ dags[nodes[lastOp[2]].parentDag].hasBranch
    /\ dags[nodes[lastOp[2]].parentDag].hasEdge
    /\ dags[nodes[lastOp[2]].parentDag].executionFlow

\* C25: after a successful Validate of a graph, if a sub-graph or a
\* conditional sub-graph of one of its nodes has executionFlow false, then the
\* graph's executionFlow is false too, also when Validate synthesized an exit
\* node.  Stated for the first validation of a graph that is not nested in
\* itself and whose edges are acyclic.
C25_SubGraphDataMakesOwnerData ==
    [][(/\ IsCall("Validate")
        /\ lastErr' = "nil"
        /\ ~dags[lastOp'[2]].validated
        /\ Acyclic(st, lastOp'[2])
        /\ lastOp'[2] \notin NestedIn(st, lastOp'[2]))
        => \A g \in SubGraphsOf([nodes |-> nodes', dags |-> dags'], lastOp'[2]) :
              ~dags'[g].executionFlow => ~dags'[lastOp'[2]].executionFlow]_vars

\* The edges from -> to of graph d whose forwarder is not nil.
DataEdges(s, d) ==
    {e \in StoredNodes(s, d) \X StoredNodes(s, d) :
        /\ e[2] \in ChildrenOf(s, e[1])
        /\ ForwarderGet(s.nodes[e[1]].forwarder, s.nodes[e[2]].Id) # "nil"}

\* C24: after any sequence of AddEdge and AddForwarder calls on one graph,
\* executionFlow is true exactly when no edge of the graph has a non-nil
\* forwarder.
C24_ExecutionFlowIffNoDataEdge ==
    dags[1].executionFlow <=> DataEdges(st, 1) = {}

\* C27: under any interleaving of concurrent Set and Get calls, Get(k)
\* returns found together with the value of the latest completed Set(k), and
\* not found with no value when no Set(k) has completed; Set(k, v) replaces
\* the value of k and changes no other key.
C27_GetReturnsLatestSet ==
    [][\A g \in 1..NumCallers :
        /\ (gs[g].pc = "read" /\ gs'[g].pc = "RUnlock")
            => gs'[g].res = IF gs[g].key \in DOMAIN lastSet
                            THEN [data |-> lastSet[gs[g].key], ok |-> TRUE]
                            ELSE [data |-> "nil", ok |-> FALSE]
        /\ (gs[g].pc = "write" /\ gs'[g].pc = "Unlock")
            => /\ flow'.data.data[gs[g].key] = gs[g].data
               /\ DOMAIN flow'.data.data = DOMAIN flow.data.data \cup {gs[g].key}
               /\ \A k \in DOMAIN flow.data.data \ {gs[g].key} :
                      flow'.data.data[k] = flow.data.data[k]]_vars

\* A Get has read the value of a key that was set before, while another
\* caller waits in Set for the same key with another value; and a Get of a
\* key never set has read not found.
C27_Witness ==
    \E g \in 1..NumCallers, h \in 1..NumCallers :
        /\ gs[g].pc = "RUnlock" /\ gs[g].res.ok
        /\ gs[h].pc = "Lock" /\ gs[h].key = gs[g].key /\ gs[h].data # gs[g].res.data

\* The nodes n is a descendant of.
Ancestors(s, n) == {a \in 1..Len(s.nodes) : n \in Descendants(s, a)}

\* C28: in a run, every value a node's task wrote to the data set before
\* returning is visible to the task of each of its descendants: when the task
\* of a node returns, the data set holds what the task of every ancestor
\* writes.  Stated for validated graphs in which every node has a task, and
\* for the build in which every closure has its own copy of the loop
\* variable.
C28_AncestorWritesVisible ==
    [][\A g \in 1..Len(gs) :
        (/\ Validated /\ ~sharedLoopVar /\ AllTasksSet
         /\ gs[g].pc = "task" /\ gs'[g].pc # "task")
        => \A a \in Ancestors(st, gs[g].node) :
              nodes[a].Id \in DOMAIN flow.data.data]_vars

\* The node Validate added as the single exit of graph 1.
SyntheticExit(n) == nodes[n].Id = "end_" \o dags[1].Id /\ dags[1].endNode = n

\* C29: when Validate has inserted a synthetic exit node, a run treats that
\* node as a no-op: its dispatch ends without error and without abort.
\* Stated for graphs in which every node the caller created has a task.
C29_SyntheticExitIsNoOp ==
    (/\ Validated /\ ~sharedLoopVar
     /\ \A n \in 1..Len(nodes) : ~SyntheticExit(n) => nodes[n].task = "set")
    => \A g \in StartedGoroutines :
          SyntheticExit(gs[g].node) => ~gs[g].panicking /\ gs[g].err = "nil"

\* C30: for a node with more than one parent and an aggregator, the
\* aggregator is invoked with the outputs of all its parents, keyed by the
\* parents' unique ids, before the node's own task starts.
C30_AggregatorBeforeTask ==
    Validated =>
        \A g \in StartedGoroutines :
            (Len(nodes[gs[g].node].dependsOn) > 1 /\ nodes[gs[g].node].aggregator # "nil")
            => \E i \in DOMAIN AggregatorCalls(gs[g].node) :
                  DOMAIN AggregatorCalls(gs[g].node)[i]
                    = {nodes[p].uniqueId : p \in ParentsOf(st, gs[g].node)}

\* The values the consume goroutine has taken from the buffer and not yet
\* handed to the reader of Output.
InConsumerHands ==
    IF gs[Consumer].pc \in {"Broadcast", "send"} THEN <<gs[Consumer].it.value>> ELSE <<>>

BufferValues == [i \in DOMAIN channel.buffer |-> channel.buffer[i].value]

\* No caller is inside Input or Close.
CallersIdle == \A g \in Callers : gs[g].pc = "idle"

\* C31: for a channel without timeout, the values accepted by Input are
\* delivered on Output exactly once and in the order they were accepted: what
\* was accepted is, in order, what was delivered, then what the consumer
\* holds, then what the buffer holds, and when the open channel is at rest
\* everything accepted has been delivered.  In blocking mode with size N the
\* buffer never holds more than N items.
C31_DeliveredOnceInOrder ==
    /\ channel.accepted = channel.delivered \o InConsumerHands \o BufferValues
    /\ ~channel.nonblock => Len(channel.buffer) <= channel.size
    /\ (channel.state = 0 /\ CallersIdle /\ gs[Consumer].pc = "parked")
         => channel.delivered = channel.accepted

\* A value has been delivered while a producer is blocked on the full buffer
\* of a blocking channel.
C31_Witness ==
    /\ ~channel.nonblock
    /\ Len(channel.delivered) >= 1
    /\ Len(channel.buffer) = channel.size
    /\ \E g \in Callers : gs[g].pc = "parked"

\* C32: Close is idempotent, an Input call that starts after Close adds no
\* item, an Input call blocked on a full buffer returns when Close is called,
\* and with a consumer that keeps reading Output the Output channel is closed
\* in the end.  Once Close has returned and every Input call has returned, no
\* caller is left in Wait, and when the consume goroutine has nothing more to
\* do it has closed Output.
C32_ClosedChannelComesToRest ==
    (isClosed(channel) /\ CallersIdle /\ gs[Consumer].pc \in {"parked", "returned"})
        => channel.consumerClosed

\* C33: after any sequence of successful and rejected AddEdge calls, for
\* every node the ids in its descendant cache (next) are the ids of the nodes
\* reachable from it over one or more child edges, and the ids in its
\* ancestor cache (prev) are the ids of the nodes it is reachable from.
\* Stated for the states in which every node created is still stored in the
\* graph: no AddVertex call has replaced a vertex.
C33_CachesAreTransitiveClosure ==
    Len(nodes) = Cardinality(DOMAIN dags[1].nodes) =>
        \A n \in StoredNodes(st, 1) :
            /\ {nodes[nodes[n].next[i]].Id : i \in DOMAIN nodes[n].next}
                   = {nodes[m].Id : m \in Descendants(st, n)}
            /\ {nodes[nodes[n].prev[i]].Id : i \in DOMAIN nodes[n].prev}
                   = {nodes[m].Id : m \in Ancestors(st, n)}

\* A chain of two edges has been built: a node has a descendant that is not
\* its child.
C33_Witness ==
    /\ Len(nodes) = Cardinality(DOMAIN dags[1].nodes)
    /\ lastOp[1] = "AddEdge"
    /\ \E n \in StoredNodes(st, 1) : Descendants(st, n) \ (ChildrenOf(st, n) \cup {n}) # {}

\* C34: after a successful Validate of the root graph, the unique ids that
\* GetNodes lists for the nodes of the root graph and of its nested
\* sub-graphs are pairwise distinct.
C34_UniqueIdsDistinct ==
    [][(~dags[1].validated /\ lastOp' = <<"Validate", 1>> /\ lastErr' = "nil") =>
           LET listed == GetNodes(st, 1, "", {})'
           IN  \A id \in BagToSet(listed) : CopiesIn(id, listed) = 1]_vars

\* Every sub-graph attached to a node of graph 1 is validated, has the id of
\* its owner's index, and its nodes have unique ids built from that id.  The
\* exit node Validate adds to a sub-graph is left aside (see C34).
SubGraphIdsFollowOwner ==
    \A b \in StoredNodes(st, 1) :
        LET sd == nodes[b].subDag
        IN  sd # Nil =>
              /\ dags[sd].validated
              /\ dags[sd].Id = SubDagId(st, 1, b)
              /\ \A n \in StoredNodes(st, sd) :
                    \/ nodes[n].Id = "end_" \o dags[sd].Id /\ dags[sd].endNode = n
                    \/ nodes[n].uniqueId = generateUniqueId(st, n, dags[sd].Id)

\* C35: after a Validate call that validates the root graph and returns nil,
\* every sub-graph attached to a node of the root graph is validated, has the
\* id "<nodeIndex>" of its owner, and each of its nodes has the unique id
\* "<subGraphId>_<index>_<id>" built from that id, whether or not the
\* sub-graph had been validated before it was attached.
C35_SubGraphIdsFollowOwner ==
    [][(~dags[1].validated /\ lastOp' = <<"Validate", 1>> /\ lastErr' = "nil")
           => SubGraphIdsFollowOwner']_vars

\* C36: Append(other) on a graph whose ids are disjoint from the ids of
\* other adds every node of other and returns no error; the duplicate-vertex
\* error is returned only when an id of other exists in the graph already.
C36_AppendAddsDisjointGraph ==
    [][\A d \in NestGraphs, appendDag \in NestGraphs :
          (/\ lastOp' = <<"Append", d, appendDag>>
           /\ DOMAIN dags[d].nodes \cap DOMAIN dags[appendDag].nodes = {})
          => /\ lastErr' = "nil"
             /\ DOMAIN dags'[d].nodes = DOMAIN dags[d].nodes \cup DOMAIN dags[appendDag].nodes
             /\ \A id \in DOMAIN dags[appendDag].nodes :
                   dags'[d].nodes[id] = dags[appendDag].nodes[id]]_vars

\* C37: after any sequence of AddVertex and AddEdge calls the adjacency is
\* symmetric (m is a child of n exactly when n is a parent of m) and every
\* node listed in children, dependsOn, next or prev of a stored node is the
\* node currently stored in the graph under its id.
C37_AdjacencyOverStoredNodes ==
    \A n \in StoredNodes(st, 1) :
        /\ \A m \in StoredNodes(st, 1) : m \in ChildrenOf(st, n) <=> n \in ParentsOf(st, m)
        /\ \A m \in ChildrenOf(st, n) \cup ParentsOf(st, n)
                    \cup {nodes[n].next[i] : i \in DOMAIN nodes[n].next}
                    \cup {nodes[n].prev[i] : i \in DOMAIN nodes[n].prev} :
              MapGet(dags[1].nodes, nodes[m].Id) = m

\* C38: a run does not change the graph: when the run of a validated graph
\* has come to rest, every node's indegree equals the number of its parents
\* (so that a second run would enqueue the initial node only).
C38_RunLeavesIndegree ==
    (Validated /\ Quiescent) =>
        \A n \in StoredNodes(st, flow.dag) : nodes[n].indegree = Len(nodes[n].dependsOn)

\* C39: a Validate call that returns an error leaves the vertex set and the
\* edge relation of the graph as they were (no exit node added, no vertex
\* replaced, no edge to an exit node) and leaves validated false.
C39_FailedValidateChangesNothing ==
    [][\A d \in Graphs :
          (lastOp' = <<"Validate", d>> /\ lastErr' \notin ({"nil"} \cup Aborts))
          => /\ dags'[d].nodes = dags[d].nodes
             /\ \A n \in StoredNodes(st, d) :
                   /\ nodes'[n].children = nodes[n].children
                   /\ nodes'[n].dependsOn = nodes[n].dependsOn
             /\ ~dags'[d].validated]_vars

\* C40: Validate terminates on every graph, whatever sub-graphs were
\* attached with AddSubDag, AddForEachDag or AddConditionalDag: no call of
\* Validate enters a graph whose own Validate call is still on the call
\* stack, which it would do without end.
C40_ValidateTerminates ==
    [][\A d \in Graphs :
          lastOp' = <<"Validate", d>> => lastErr' # "stack overflow"]_vars

====
